---- MODULE Spec2Model ----
(***************************************************************************)
(* Ingest buffering and voice-activity segmentation of the shopping        *)
(* extension backend.  Two server builds share the design: the FastAPI     *)
(* endpoint of server/main.py with ServerRmsVadSegmenter, and the          *)
(* WebSocketService of server/app/services with RmsVadSegmenter.  The      *)
(* variable impl says which build a connection runs on.                    *)
(*                                                                         *)
(* Time is in integer milliseconds.  PCM payloads are sequences of 16-bit  *)
(* samples (two bytes each; a trailing odd byte is ignored by the          *)
(* classifier's loop and never reaches a slice boundary).  Durations that  *)
(* the encoder keeps in fractional seconds are in integer microseconds.    *)
(***************************************************************************)
EXTENDS Integers, Sequences, FiniteSets, TLC

VARIABLES impl, cfg, vad, sample_rate, frames, audio_chunks,
          max_frames_buffer, max_audio_chunks, sent, spawned, steps, run,
          transcripts, tasks, fin, enc, loop, connection_manager, bridge

vars == <<impl, cfg, vad, sample_rate, frames, audio_chunks,
          max_frames_buffer, max_audio_chunks, sent, spawned, steps, run,
          transcripts, tasks, fin, enc, loop, connection_manager, bridge>>

\* the finalizer's side of a connection: the transcript log, the finalize
\* tasks in flight, and the finalize run and the call of the encoder made by
\* the most recent step, if it made one; and the event loop that schedules
\* the connections and their finalize runs, followed in SpecLoop only
finvars == <<transcripts, tasks, fin, enc, loop, connection_manager, bridge>>

\* everything but the event loop
connvars == <<impl, cfg, vad, sample_rate, frames, audio_chunks,
              max_frames_buffer, max_audio_chunks, sent, spawned, steps, run,
              transcripts, tasks, fin, enc, connection_manager, bridge>>

---------------------------------------------------------------------------
(* Bounds of the exploration *)

MaxCap == 1
MaxTs == 2
MaxRunFrames == 4
MaxConnections == 3
MaxTurns == 2
MaxEvents == 2

---------------------------------------------------------------------------
(* Program constants *)

DefaultFrameMs == 30
DefaultMinSpeechMs == 300
DefaultEndSilenceMs == 800
DefaultPreRollMs == 200
DefaultPostRollMs == 300
ThresholdNum == 2
ThresholdDen == 100
FullScale == 32768
DefaultSampleRate == 16000
DefaultMaxBuffer == 5000
ForcedWindowMs == 2000
TickMs == 500

---------------------------------------------------------------------------
(* Python values *)

None == <<>>
Some(x) == <<x>>

Max(a, b) == IF a >= b THEN a ELSE b

Min(a, b) == IF a <= b THEN a ELSE b

Abs(x) == IF x < 0 THEN -x ELSE x

\* Python's `value or default` on an optional number: None and 0 are falsy.
OrElse(opt, default) == IF opt = None THEN default
                        ELSE IF opt[1] = 0 THEN default ELSE opt[1]

\* Python's `value if value is not None else default`.
IfNotNone(opt, default) == IF opt = None THEN default ELSE opt[1]

\* list[drop:] for 0 <= drop
DropFirst(s, drop) == SubSeq(s, drop + 1, Len(s))

\* list[-n:]; for n = 0 the slice is list[0:], the whole list
LastN(s, n) == IF n = 0 THEN s
               ELSE IF n > 0 THEN SubSeq(s, Max(1, Len(s) - n + 1), Len(s))
               ELSE SubSeq(s, Min(Len(s), -n) + 1, Len(s))

---------------------------------------------------------------------------
(* Voice-activity classification *)

\* total of abs(sample) over the samples lo .. hi, summed by halves
RECURSIVE SumAbsBetween(_, _, _)
SumAbsBetween(pcm, lo, hi) ==
    IF lo > hi THEN 0
    ELSE IF lo = hi THEN Abs(pcm[lo])
    ELSE LET mid == (lo + hi) \div 2
         IN  SumAbsBetween(pcm, lo, mid) + SumAbsBetween(pcm, mid + 1, hi)

SumAbs(pcm) == SumAbsBetween(pcm, 1, Len(pcm))

\* (total / count) / 32768.0 >= amplitude_threshold, without the division
FrameIsSpeech(pcm) ==
    IF Len(pcm) = 0 THEN FALSE
    ELSE SumAbs(pcm) * ThresholdDen >= ThresholdNum * FullScale * Len(pcm)

---------------------------------------------------------------------------
(* The segmenter *)

VadInit == [state |-> "idle", speech_ms |-> 0, silence_ms |-> 0,
            first_speech_ts_ms |-> None, last_speech_ts_ms |-> None]

NoEvent == [type |-> "none", segment_start_ms |-> None, segment_end_ms |-> None]

SegmentStartEvent(s) ==
    [type |-> "segment_start", segment_start_ms |-> Some(s), segment_end_ms |-> None]

SegmentEndEvent(s, e) ==
    [type |-> "segment_end", segment_start_ms |-> Some(s), segment_end_ms |-> Some(e)]

\* variant: the triggering frame's own duration is subtracted as well
FirstSpeechTsWholeSpeech(frame_ts, speech_ms, c) ==
    Max(0, frame_ts - speech_ms - c.pre_roll_ms)

\* frame start minus the speech before this frame minus pre-roll, floored at 0
FirstSpeechTs(frame_ts, speech_ms, c) ==
    LET first == frame_ts - (speech_ms - c.frame_ms) - c.pre_roll_ms
    IN  IF first < 0 THEN 0 ELSE first

ResetState(v) == VadInit

\* variant: a speech frame leaves silence_ms as it is
SpeechFrameKeepsSilence(v, c, frame_ts) ==
    LET speech_ms == v.speech_ms + c.frame_ms
        v1 == [v EXCEPT !.speech_ms = speech_ms]
    IN  IF v.state = "idle" /\ speech_ms >= c.min_speech_ms
        THEN LET first == FirstSpeechTs(frame_ts, speech_ms, c)
             IN  [vad |-> [v1 EXCEPT !.state = "speaking",
                                     !.first_speech_ts_ms = Some(first),
                                     !.last_speech_ts_ms = Some(frame_ts)],
                  event |-> SegmentStartEvent(first)]
        ELSE IF v.state = "speaking"
        THEN [vad |-> [v1 EXCEPT !.last_speech_ts_ms = Some(frame_ts)],
              event |-> NoEvent]
        ELSE [vad |-> v1, event |-> NoEvent]

\* variant: the transition needs more than min_speech_ms
SpeechFrameStrict(v, c, frame_ts) ==
    LET speech_ms == v.speech_ms + c.frame_ms
        v1 == [v EXCEPT !.speech_ms = speech_ms, !.silence_ms = 0]
    IN  IF v.state = "idle" /\ speech_ms > c.min_speech_ms
        THEN LET first == FirstSpeechTs(frame_ts, speech_ms, c)
             IN  [vad |-> [v1 EXCEPT !.state = "speaking",
                                     !.first_speech_ts_ms = Some(first),
                                     !.last_speech_ts_ms = Some(frame_ts)],
                  event |-> SegmentStartEvent(first)]
        ELSE IF v.state = "speaking"
        THEN [vad |-> [v1 EXCEPT !.last_speech_ts_ms = Some(frame_ts)],
              event |-> NoEvent]
        ELSE [vad |-> v1, event |-> NoEvent]

\* the speech branch, common to both segmenters
SpeechFrame(v, c, frame_ts) ==
    LET speech_ms == v.speech_ms + c.frame_ms
        v1 == [v EXCEPT !.speech_ms = speech_ms, !.silence_ms = 0]
    IN  IF v.state = "idle" /\ speech_ms >= c.min_speech_ms
        THEN LET first == FirstSpeechTs(frame_ts, speech_ms, c)
             IN  [vad |-> [v1 EXCEPT !.state = "speaking",
                                     !.first_speech_ts_ms = Some(first),
                                     !.last_speech_ts_ms = Some(frame_ts)],
                  event |-> SegmentStartEvent(first)]
        ELSE IF v.state = "speaking"
        THEN [vad |-> [v1 EXCEPT !.last_speech_ts_ms = Some(frame_ts)],
              event |-> NoEvent]
        ELSE [vad |-> v1, event |-> NoEvent]

\* ServerRmsVadSegmenter.process_frame
ServerProcessFrame(v, c, pcm, frame_ts) ==
    IF FrameIsSpeech(pcm) THEN SpeechFrame(v, c, frame_ts)
    ELSE LET silence_ms == v.silence_ms + c.frame_ms
         IN  IF v.state = "speaking" /\ silence_ms >= c.end_silence_ms
             THEN [vad |-> VadInit,
                   event |-> SegmentEndEvent(
                       IfNotNone(v.first_speech_ts_ms, frame_ts),
                       OrElse(v.last_speech_ts_ms, frame_ts) + c.post_roll_ms)]
             ELSE [vad |-> [v EXCEPT !.silence_ms = silence_ms],
                   event |-> NoEvent]

\* RmsVadSegmenter.process_frame
AppProcessFrame(v, c, pcm, frame_ts) ==
    IF FrameIsSpeech(pcm) THEN SpeechFrame(v, c, frame_ts)
    ELSE LET silence_ms == v.silence_ms + c.frame_ms
         IN  IF v.state = "speaking" /\ silence_ms >= c.end_silence_ms
             THEN [vad |-> ResetState(v),
                   event |-> SegmentEndEvent(
                       OrElse(v.first_speech_ts_ms, frame_ts),
                       OrElse(v.last_speech_ts_ms, frame_ts) + c.post_roll_ms)]
             ELSE [vad |-> [v EXCEPT !.silence_ms = silence_ms],
                   event |-> NoEvent]

\* RmsVadSegmenter.force_segment_end
ForceSegmentEnd(v, c, current_ts) ==
    IF v.state = "speaking"
    THEN [vad |-> ResetState(v),
          event |-> SegmentEndEvent(
              OrElse(v.first_speech_ts_ms, current_ts),
              OrElse(v.last_speech_ts_ms, current_ts) + c.post_roll_ms)]
    ELSE [vad |-> v, event |-> NoEvent]

---------------------------------------------------------------------------
(* Configurations and inputs *)

DefaultCfg == [frame_ms |-> DefaultFrameMs, min_speech_ms |-> DefaultMinSpeechMs,
               end_silence_ms |-> DefaultEndSilenceMs, pre_roll_ms |-> DefaultPreRollMs,
               post_roll_ms |-> DefaultPostRollMs]

\* configurations taken from the environment, in small time units
CfgA == [frame_ms |-> 1, min_speech_ms |-> 2, end_silence_ms |-> 2,
         pre_roll_ms |-> 1, post_roll_ms |-> 1]

CfgB == [frame_ms |-> 2, min_speech_ms |-> 2, end_silence_ms |-> 3,
         pre_roll_ms |-> 0, post_roll_ms |-> 2]

EnvConfigs == {CfgA, CfgB}

\* a configuration under which one speech frame opens a segment and one
\* silence frame closes it
CfgC == [frame_ms |-> 1, min_speech_ms |-> 1, end_silence_ms |-> 1,
         pre_roll_ms |-> 0, post_roll_ms |-> 1]

\* payloads of at most two samples: loud (speech) and quiet (silence)
PcmInputs == {<<>>, <<40>>, <<16000>>, <<16000, 40>>}

\* a sample rate of 0 stands for a message without the field
SampleRates == {0, 1000}

TsInputs == 0 .. MaxTs

\* the client states the sample count of its payload; an empty payload may
\* come with a count of 0 or 1
SampleCounts(pcm) == IF pcm = <<>> THEN {0, 1} ELSE {Len(pcm)}

\* one undecodable message stands for all of them
BadAudioMsg == [ok |-> FALSE, ts |-> 0, pcm |-> <<>>, num |-> 0, sr |-> 0]

AudioMsgsOver(tss, pcms, srs) ==
    {BadAudioMsg} \cup
    UNION {UNION {{[ok |-> TRUE, ts |-> t, pcm |-> p, num |-> n, sr |-> r] :
                      n \in SampleCounts(p), r \in srs} : p \in pcms} : t \in tss}

AudioMsgs == AudioMsgsOver(TsInputs, PcmInputs, SampleRates)

BadFrameMsg == [ok |-> FALSE, ts |-> 0]

FrameMsgsOver(tss) == {BadFrameMsg} \cup {[ok |-> TRUE, ts |-> t] : t \in tss}

FrameMsgs == FrameMsgsOver(TsInputs)

\* stands for a ts_ms that is not a number (a string, null): WebSocketService
\* reads data["ts_ms"] as it comes, main.py's float() rejects it
NotANumber == -1

\* a frame message that decodes but whose timestamp is not a number
NonNumericFrameMsg == [ok |-> TRUE, ts |-> NotANumber]

---------------------------------------------------------------------------
(* Outgoing messages *)

\* the seq that an ack echoes is followed for init and text messages
Msg(type, state, what, drop, s, e) ==
    [type |-> type, state |-> state, what |-> what, drop |-> drop,
     segment_start_ms |-> s, segment_end_ms |-> e, seq |-> None]

Ack(ackType) == Msg("ack", ackType, "-", 0, None, None)

\* variant: the ack does not carry the message's seq
AckWithoutSeq(ackType, seq) == Ack(ackType)

\* {"type": "ack", "seq": seq, "ackType": ackType}, seq = message.get("seq")
AckSeq(ackType, seq) == [Ack(ackType) EXCEPT !.seq = seq]

\* a message without seq, and one with seq
Seqs == {None, Some(2)}

StatusBusy(what, drop) == Msg("status", "busy", what, drop, None, None)

StatusSegment(state, ev) ==
    Msg("status", state, "-", 0, ev.segment_start_ms, ev.segment_end_ms)

---------------------------------------------------------------------------
(* Per-frame bookkeeping: the contiguous speech and silence of the frame   *)
(* stream seen by the current segmenter instance and whether an announced  *)
(* segment is still open (run), and the record of each call of the         *)
(* segmenter made by the most recent handler that reached it (steps)       *)

\* the counts stop at the larger threshold: beyond it every comparison
\* against min_speech_ms and end_silence_ms has the same outcome
RunCap(c) == Max(c.min_speech_ms, c.end_silence_ms)

\* gap: the open segment has seen silence followed by speech; start: the
\* start announced by the segment_start that opened it
RunAfter(r, c, is_speech, ev) ==
    LET open == IF ev.type = "segment_start" THEN TRUE
                ELSE IF ev.type = "segment_end" THEN FALSE ELSE r.open
        gap == IF ev.type # "none" THEN FALSE
               ELSE IF is_speech /\ r.open /\ r.silence > 0 THEN TRUE ELSE r.gap
        start == IF ev.type = "segment_start" THEN ev.segment_start_ms
                 ELSE IF ev.type = "segment_end" THEN None ELSE r.start
    IN  IF is_speech
        THEN [speech |-> Min(r.speech + c.frame_ms, RunCap(c)), silence |-> 0,
              open |-> open, gap |-> gap, start |-> start]
        ELSE [speech |-> 0, silence |-> Min(r.silence + c.frame_ms, RunCap(c)),
              open |-> open, gap |-> gap, start |-> start]

RunInit == [speech |-> 0, silence |-> 0, open |-> FALSE, gap |-> FALSE,
            start |-> None]

FrameStep(v, c, pcm, frame_ts, r, res) ==
    [kind |-> "frame", pre |-> v, ts |-> frame_ts, is_speech |-> FrameIsSpeech(pcm),
     post |-> res.vad, event |-> res.event, was_open |-> r.open,
     had_gap |-> r.gap, announced |-> r.start,
     run |-> RunAfter(r, c, FrameIsSpeech(pcm), res.event)]

ForceStep(v, ts, r, res) ==
    [kind |-> "force", pre |-> v, ts |-> ts, is_speech |-> FALSE,
     post |-> res.vad, event |-> res.event, was_open |-> r.open,
     had_gap |-> r.gap, announced |-> r.start,
     run |-> IF res.event.type = "segment_end"
             THEN [r EXCEPT !.open = FALSE, !.gap = FALSE, !.start = None]
             ELSE r]

---------------------------------------------------------------------------
(* server/main.py: the receive loop's handlers *)

\* int(sr * (frame_ms / 1000))
SamplesPerFrame(sr, frame_ms) == (sr * frame_ms) \div 1000

\* ts + (num / sr) * 1000.0 of the newest chunk, or the newest frame's ts;
\* the sample rates and counts explored keep the quotient integral
LatestTs ==
    LET last_audio_ts ==
            IF audio_chunks # <<>>
            THEN LET ch == audio_chunks[Len(audio_chunks)]
                 IN  ch.ts + (ch.num * 1000) \div ch.sr
            ELSE 0
        last_frame_ts == IF frames # <<>> THEN frames[Len(frames)].ts ELSE 0
    IN  Max(last_audio_ts, last_frame_ts)

RECURSIVE MainFrameLoop(_, _, _, _, _, _, _)
MainFrameLoop(acc, c, pcm, ts_start, spf, i, total_frames) ==
    IF i >= total_frames THEN acc
    ELSE LET frame == SubSeq(pcm, i * spf + 1, Min(Len(pcm), (i + 1) * spf))
             frame_ts == ts_start + i * c.frame_ms
             res == ServerProcessFrame(acc.vad, c, frame, frame_ts)
             step == FrameStep(acc.vad, c, frame, frame_ts, acc.run, res)
             out == IF res.event.type = "segment_start"
                    THEN <<StatusSegment("speaking", res.event)>>
                    ELSE IF res.event.type = "segment_end"
                    THEN <<StatusSegment("segment_closed", res.event)>>
                    ELSE <<>>
             task == IF res.event.type = "segment_end"
                     THEN <<[start |-> res.event.segment_start_ms[1],
                             end |-> res.event.segment_end_ms[1]]>>
                     ELSE <<>>
         IN  MainFrameLoop([vad |-> res.vad, run |-> step.run,
                            steps |-> Append(acc.steps, step),
                            sent |-> acc.sent \o out,
                            spawned |-> acc.spawned \o task],
                           c, pcm, ts_start, spf, i + 1, total_frames)

MainInit(sr, seq) ==
    /\ impl = "main"
    /\ IF sr > 0
       THEN /\ sample_rate' = sr
            /\ vad' = VadInit
            /\ cfg' = DefaultCfg
            /\ run' = [RunInit EXCEPT !.open = run.open, !.start = run.start]
       ELSE UNCHANGED <<sample_rate, vad, cfg, run>>
    /\ sent' = <<AckSeq("init", seq), Msg("config", "-", "-", 0, None, None)>>
    /\ spawned' = <<>>
    /\ steps' = <<>>
    /\ UNCHANGED <<impl, frames, audio_chunks, max_frames_buffer, max_audio_chunks>>

MainImageFrame(m) ==
    /\ impl = "main"
    /\ IF m.ok
       THEN LET appended == Append(frames, [ts |-> m.ts])
                drop == Len(appended) - max_frames_buffer
            IN  IF Len(appended) > max_frames_buffer
                THEN /\ frames' = DropFirst(appended, drop)
                     /\ sent' = <<StatusBusy("droppedFrames", drop), Ack("imageFrame")>>
                ELSE /\ frames' = appended
                     /\ sent' = <<Ack("imageFrame")>>
       ELSE /\ frames' = frames
            /\ sent' = <<Ack("imageFrame")>>
    /\ spawned' = <<>>
    /\ UNCHANGED <<impl, cfg, vad, sample_rate, audio_chunks,
                   max_frames_buffer, max_audio_chunks, run, steps>>

MainAudioChunk(m) ==
    /\ impl = "main"
    /\ LET sr == IF m.sr = 0 THEN sample_rate ELSE m.sr
       IN  IF m.ok /\ m.num > 0 /\ sr > 0
           THEN LET appended == Append(audio_chunks,
                                       [ts |-> m.ts, pcm |-> m.pcm, num |-> m.num, sr |-> sr])
                    drop == Len(appended) - max_audio_chunks
                    over == Len(appended) > max_audio_chunks
                    busy == IF over THEN <<StatusBusy("droppedAudioChunks", drop)>> ELSE <<>>
                    spf == SamplesPerFrame(sr, cfg.frame_ms)
                    acc0 == [vad |-> vad, run |-> run, steps |-> <<>>,
                             sent |-> busy, spawned |-> <<>>]
                \* a zero frame size raises ZeroDivisionError, caught by the handler
                IN  \E acc \in {IF spf = 0 THEN acc0
                                 ELSE MainFrameLoop(acc0, cfg, m.pcm, m.ts, spf, 0,
                                                    Max(1, Len(m.pcm) \div spf))} :
                    /\ audio_chunks' = (IF over THEN DropFirst(appended, drop) ELSE appended)
                    /\ vad' = acc.vad
                    /\ run' = acc.run
                    /\ steps' = acc.steps
                    /\ sent' = acc.sent \o <<Ack("audioChunk")>>
                    /\ spawned' = acc.spawned
           ELSE /\ sent' = <<Ack("audioChunk")>>
                /\ spawned' = <<>>
                /\ UNCHANGED <<audio_chunks, vad, run, steps>>
    /\ UNCHANGED <<impl, cfg, sample_rate, frames, max_frames_buffer, max_audio_chunks>>

\* a text that is not JSON: an error message, and the loop goes on
MainInvalidJson ==
    /\ impl = "main"
    /\ sent' = <<Msg("error", "invalid_json", "-", 0, None, None)>>
    /\ spawned' = <<>>
    /\ UNCHANGED <<impl, cfg, vad, sample_rate, frames, audio_chunks,
                   max_frames_buffer, max_audio_chunks, run, steps>>

\* a message of a type that the loop does not know
MainUnknownType ==
    /\ impl = "main"
    /\ sent' = <<Msg("error", "unknown_type", "-", 0, None, None)>>
    /\ spawned' = <<>>
    /\ UNCHANGED <<impl, cfg, vad, sample_rate, frames, audio_chunks,
                   max_frames_buffer, max_audio_chunks, run, steps>>

ControlActions == {"activesessionclosed", "forcesegmentclose", "other"}

MainControl(action) ==
    /\ impl = "main"
    /\ LET seg_end == LatestTs
           seg_start == Max(0, seg_end - ForcedWindowMs)
       IN  IF action = "activesessionclosed"
           THEN /\ sent' = <<Msg("status", "idle", "-", 0, None, None),
                             Ack("control"), Ack("control")>>
                /\ spawned' = <<[start |-> seg_start, end |-> seg_end]>>
           ELSE IF action = "forcesegmentclose"
           THEN /\ sent' = <<Msg("status", "segment_forced", "-", 0,
                                 Some(seg_start), Some(seg_end)),
                             Ack("control")>>
                /\ spawned' = <<[start |-> seg_start, end |-> seg_end]>>
           ELSE /\ sent' = <<Ack("control")>>
                /\ spawned' = <<>>
    /\ UNCHANGED <<impl, cfg, vad, sample_rate, frames, audio_chunks,
                   max_frames_buffer, max_audio_chunks, run, steps>>

---------------------------------------------------------------------------
(* server/app/services/websocket_service.py: WebSocketService *)

AppHandleFrame(m) ==
    /\ impl = "app"
    /\ IF m.ok
       THEN LET appended == Append(frames, [ts |-> m.ts])
            IN  frames' = (IF Len(appended) > max_frames_buffer
                           THEN LastN(appended, max_frames_buffer)
                           ELSE appended)
       ELSE frames' = frames
    /\ sent' = <<>>
    /\ spawned' = <<>>
    /\ UNCHANGED <<impl, cfg, vad, sample_rate, audio_chunks,
                   max_frames_buffer, max_audio_chunks, run, steps>>

AppHandleAudio(m) ==
    /\ impl = "app"
    /\ IF m.ok /\ m.sr # 0
       THEN LET appended == Append(audio_chunks,
                                   [ts |-> m.ts, pcm |-> m.pcm, num |-> m.num, sr |-> m.sr])
                res == AppProcessFrame(vad, cfg, m.pcm, m.ts)
                step == FrameStep(vad, cfg, m.pcm, m.ts, run, res)
            IN  /\ audio_chunks' = (IF Len(appended) > max_audio_chunks
                                    THEN LastN(appended, max_audio_chunks)
                                    ELSE appended)
                /\ vad' = res.vad
                /\ run' = step.run
                /\ steps' = <<step>>
                /\ spawned' = (IF res.event.type = "segment_end"
                               THEN <<[start |-> res.event.segment_start_ms[1],
                                       end |-> res.event.segment_end_ms[1]]>>
                               ELSE <<>>)
       ELSE /\ spawned' = <<>>
            /\ UNCHANGED <<audio_chunks, vad, run, steps>>
    /\ sent' = <<>>
    /\ UNCHANGED <<impl, cfg, sample_rate, frames, max_frames_buffer, max_audio_chunks>>

AppForceSegmentEnd(current_ts) ==
    /\ impl = "app"
    /\ LET res == ForceSegmentEnd(vad, cfg, current_ts)
       IN  /\ vad' = res.vad
           /\ steps' = <<ForceStep(vad, current_ts, run, res)>>
           /\ run' = ForceStep(vad, current_ts, run, res).run
    /\ sent' = <<>>
    /\ spawned' = <<>>
    /\ UNCHANGED <<impl, cfg, sample_rate, frames, audio_chunks,
                   max_frames_buffer, max_audio_chunks>>

---------------------------------------------------------------------------
(* server/media_encoder.py and server/app/utils/media_encoder.py: both     *)
(* encoders run the same computation.  Floating-point rounding is left     *)
(* out: the rates, counts and frame rates explored keep every quotient     *)
(* exact.                                                                  *)

EmptyAudioSampleRate == 16000
DurationToleranceUs == 1000
MinLastFrameUs == 10000

\* ts_start + (num_samples / sr) * 1000.0 <= bound, compared after
\* multiplying both sides by sr
ChunkEndsAtOrBefore(ch, bound) == ch.ts * ch.sr + ch.num * 1000 <= bound * ch.sr

\* variant: a chunk that starts at the range's start is skipped as well
ChunkOverlapsAfterStart(ch, s, e) ==
    ~(ChunkEndsAtOrBefore(ch, s) \/ ch.ts >= e) /\ ch.ts > s

\* not (ts_end <= segment_start_ms or ts_start >= segment_end_ms)
ChunkOverlaps(ch, s, e) == ~(ChunkEndsAtOrBefore(ch, s) \/ ch.ts >= e)

\* the samples of one overlapping chunk that lie in the range
ChunkSlice(ch, s, e) ==
    LET start_offset_ms == Max(0, s - ch.ts)
        start_sample == (start_offset_ms * ch.sr) \div 1000
        \* int(num_samples - (end_offset_ms / 1000.0) * sr)
        end_sample_exclusive == IF ChunkEndsAtOrBefore(ch, e) THEN ch.num
                                ELSE ((e - ch.ts) * ch.sr) \div 1000
    IN  IF start_sample < end_sample_exclusive /\ end_sample_exclusive <= Len(ch.pcm)
        THEN SubSeq(ch.pcm, start_sample + 1, end_sample_exclusive)
        ELSE <<>>

RECURSIVE ExtractFrom(_, _, _, _, _)
ExtractFrom(chunks, i, sr, s, e) ==
    IF i > Len(chunks) THEN <<>>
    ELSE (IF chunks[i].sr # sr \/ ~ChunkOverlaps(chunks[i], s, e) THEN <<>>
          ELSE ChunkSlice(chunks[i], s, e))
         \o ExtractFrom(chunks, i + 1, sr, s, e)

ExtractAudioSegmentBytes(chunks, s, e) ==
    IF chunks = <<>> THEN [pcm |-> <<>>, sr |-> EmptyAudioSampleRate]
    ELSE [pcm |-> ExtractFrom(chunks, 1, chunks[1].sr, s, e), sr |-> chunks[1].sr]

\* (frames / sample_rate) * 1000.0, in microseconds
WavDurationUs(pcm, sr) == (Len(pcm) * 1000000) \div sr

\* sorted(frames, key=ts): a stable sort
InsertByTs(sorted, f) ==
    LET k == Cardinality({i \in 1 .. Len(sorted) : sorted[i].ts <= f.ts})
    IN  SubSeq(sorted, 1, k) \o <<f>> \o SubSeq(sorted, k + 1, Len(sorted))

RECURSIVE SortedFrom(_, _, _)
SortedFrom(fs, i, acc) ==
    IF i > Len(fs) THEN acc ELSE SortedFrom(fs, i + 1, InsertByTs(acc, fs[i]))

FramesSorted(fs) == SortedFrom(fs, 1, <<>>)

\* variant: the scan looks for a frame strictly after t
FirstAfter(sorted, idx, t) ==
    LET js == {j \in idx .. Len(sorted) : sorted[j].ts > t}
    IN  IF js = {} THEN 0 ELSE CHOOSE j \in js : \A k \in js : j <= k

\* the scan from idx for the first frame with ts >= t; 0 when none remains
FirstAtOrAfter(sorted, idx, t) ==
    LET js == {j \in idx .. Len(sorted) : sorted[j].ts >= t}
    IN  IF js = {} THEN 0 ELSE CHOOSE j \in js : \A k \in js : j <= k

\* 1000.0 / encode_fps
StepMs(fps) == 1000 \div fps

\* an entry of the selection: the frame written (its place in the sorted
\* list and its timestamp), the step it was selected at, its duration, and
\* whether it repeats the previous file
RECURSIVE SelectLoop(_, _, _, _, _, _, _)
SelectLoop(sorted, t, e, step_ms, idx, last, selected) ==
    IF t > e THEN selected
    ELSE LET j == FirstAtOrAfter(sorted, idx, t)
         IN  IF j = 0
             THEN IF last = None THEN selected
                  ELSE SelectLoop(sorted, t + step_ms, e, step_ms, idx, last,
                           Append(selected, [src |-> last[1], ts |-> sorted[last[1]].ts,
                                             t |-> t, dur_us |-> step_ms * 1000,
                                             dup |-> TRUE]))
             ELSE SelectLoop(sorted, t + step_ms, e, step_ms, j, Some(j),
                      Append(selected, [src |-> j, ts |-> sorted[j].ts,
                                        t |-> t, dur_us |-> step_ms * 1000,
                                        dup |-> FALSE]))

SelectFramesForSegment(fs, s, e, fps) ==
    IF fs = <<>> \/ e <= s THEN <<>>
    ELSE SelectLoop(FramesSorted(fs), s, e, StepMs(fps), 1, None, <<>>)

RECURSIVE TotalDurationUs(_, _)
TotalDurationUs(selected, i) ==
    IF i > Len(selected) THEN 0
    ELSE selected[i].dur_us + TotalDurationUs(selected, i + 1)

\* the last frame takes the difference between audio and frame durations
AdjustFrameDurations(selected, audio_us) ==
    IF selected = <<>> \/ audio_us <= 0 THEN selected
    ELSE LET difference == audio_us - TotalDurationUs(selected, 1)
         IN  IF Abs(difference) > DurationToleranceUs
             THEN [selected EXCEPT ![Len(selected)].dur_us =
                                       Max(MinLastFrameUs, @ + difference)]
             ELSE selected

\* variant: a failed mux is passed over in silence
MuxFailureSwallowed(count, mux_ok) == FALSE

\* variant: the mux process runs, and can fail, with no frame selected
MuxRaisesWithoutFrames(count, mux_ok) == ~mux_ok

\* mux_to_webm, called when a frame was selected, raises RuntimeError when
\* the external process exits non-zero
MuxRaises(count, mux_ok) == count > 0 /\ ~mux_ok

\* encode_segment; mux_ok is the exit status of the external mux process,
\* which runs only when a frame was selected
EncodeSegment(fs, chunks, s, e, fps, mux_ok) ==
    LET audio == ExtractAudioSegmentBytes(chunks, s, e)
        audio_us == WavDurationUs(audio.pcm, audio.sr)
        selected == SelectFramesForSegment(fs, s, e, fps)
    IN  [called |-> TRUE, start |-> s, end |-> e, fps |-> fps,
         frames_in |-> fs, chunks_in |-> chunks,
         pcm |-> audio.pcm, sr |-> audio.sr, audio_us |-> audio_us,
         frame_count |-> Len(selected), nominal |-> selected,
         selected |-> AdjustFrameDurations(selected, audio_us),
         muxed |-> Len(selected) > 0 /\ mux_ok,
         raised |-> MuxRaises(Len(selected), mux_ok)]

EncInit == [called |-> FALSE, start |-> 0, end |-> 0, fps |-> 1,
            frames_in |-> <<>>, chunks_in |-> <<>>,
            pcm |-> <<>>, sr |-> EmptyAudioSampleRate, audio_us |-> 0,
            frame_count |-> 0, nominal |-> <<>>, selected |-> <<>>,
            muxed |-> FALSE, raised |-> FALSE]

---------------------------------------------------------------------------
(* Transcripts and the segment finalizer *)

TranscriptSlackMs == 500
TranscriptLogCap == 500
MainEncodeFps == 1
AppEncodeFps == 2

\* what a call of the AI-response collaborator can come to: an exception,
\* an empty text or a text; the synthesized audio that may come with a text,
\* and the audio_response message that then follows the response, are not
\* followed
CollaboratorOutcomes == {"raise", "", "answer"}

ResponseText(outcome) == outcome

\* the fixed text used when the error path's own collaborator call fails
StaticApology == "sorry"

Texts == {"", "hello"}

\* Python's `text or ""` on an optional string
OrEmptyText(text) == IF text = None THEN "" ELSE text[1]

FinMsg(type, text, transcript, encoded, error, path) ==
    [type |-> type, text |-> text, transcript |-> transcript,
     encoded |-> encoded, error |-> error, path |-> path]

TranscriptNotice(text) == FinMsg("transcript", text, None, FALSE, FALSE, "-")

SegmentSummary(response, transcript, encoded, error, path) ==
    FinMsg("segment", response, transcript, encoded, error, path)

ResponseMsg(text) == FinMsg("response", text, None, FALSE, FALSE, "-")

\* [f for f in state.frames if seg_start_ms <= ts <= seg_end_ms]
FramesWindow(fs, s, e) == SelectSeq(fs, LAMBDA f : s <= f.ts /\ f.ts <= e)

\* chunks with ts + (num / sr) * 1000.0 >= seg_start_ms and ts <= seg_end_ms
AudioWindow(chunks, s, e) ==
    SelectSeq(chunks, LAMBDA ch : /\ ch.ts * ch.sr + ch.num * 1000 >= s * ch.sr
                                  /\ ch.ts <= e)

\* variant: building the window empties the buffer
BufferDrainedByWindow(buffer) == <<>>

\* the buffer after a window was built from it: the comprehension reads only
BufferAfterWindow(buffer) == buffer

InTranscriptRange(entry, s, e, slack) ==
    s - slack <= entry.ts[1] /\ entry.ts[1] <= e + slack

\* one pass of main.py's _await_transcript over reversed(state.transcripts)
MainFindTranscript(log, s, e) ==
    LET hits == {i \in 1 .. Len(log) : InTranscriptRange(log[i], s, e, TranscriptSlackMs)}
    IN  IF hits = {} THEN None
        ELSE Some(log[CHOOSE i \in hits : \A k \in hits : k <= i].text)

\* WebSocketService._await_transcript: oldest entry first, no slack; an
\* entry whose timestamp is not a number makes the comparison raise
AppFindTranscript(log, s, e) ==
    LET stops == {i \in 1 .. Len(log) :
                     log[i].ts = None \/ InTranscriptRange(log[i], s, e, 0)}
    IN  IF stops = {} THEN [raised |-> FALSE, text |-> None]
        ELSE LET first == CHOOSE i \in stops : \A k \in stops : i <= k
             IN  IF log[first].ts = None THEN [raised |-> TRUE, text |-> None]
                 ELSE [raised |-> FALSE, text |-> Some(log[first].text)]

\* a finalize task as scheduled by a segment_end or a control message;
\* held: the frames of its window that the buffer holds as it is scheduled
Task(sp) == [start |-> sp.start, end |-> sp.end, provided |-> None,
             skip |-> FALSE, inline |-> FALSE,
             held |-> FramesWindow(frames', sp.start, sp.end)]

RECURSIVE Tasks(_, _)
Tasks(scheduled, i) ==
    IF i > Len(scheduled) THEN <<>>
    ELSE <<Task(scheduled[i])>> \o Tasks(scheduled, i + 1)

FinInit == [ran |-> FALSE, start |-> 0, end |-> 0, waited |-> FALSE,
            text |-> None, status |-> "-", route |-> "-", path |-> "-",
            frame_count |-> 0, audio_us |-> 0, artifact |-> FALSE,
            msgs |-> <<>>]

\* variant: audio is preferred to an encoded video
ChoosePathAudioFirst(video, audio_us) ==
    IF audio_us > 0 THEN "audio" ELSE IF video THEN "video" ELSE "text"

\* the branch taken for the response: the muxed video if there is one, else
\* the audio if it has a duration, else the text alone
ChoosePath(video, audio_us) ==
    IF video THEN "video" ELSE IF audio_us > 0 THEN "audio" ELSE "text"

\* variant: the error path sends its response before the summary
MainErrorMsgsResponseFirst(text, err) ==
    LET fallback_text == IF err = "raise" THEN StaticApology ELSE ResponseText(err)
    IN  (IF fallback_text # "" THEN <<ResponseMsg(fallback_text)>> ELSE <<>>)
        \o <<SegmentSummary(fallback_text, text, FALSE, TRUE, "error_fallback")>>

\* the error path of main.py's _finalize_segment
MainErrorMsgs(text, err) ==
    LET fallback_text == IF err = "raise" THEN StaticApology ELSE ResponseText(err)
    IN  <<SegmentSummary(fallback_text, text, FALSE, TRUE, "error_fallback")>>
        \o (IF fallback_text # "" THEN <<ResponseMsg(fallback_text)>> ELSE <<>>)

\* main.py's _finalize_segment from the resolved transcript on; result is
\* the encoder's, artifact says whether out.webm exists, live, fb and err
\* are the outcomes of the live call, of its fallback and of the error
\* path's call
MainFinalize(task, text, frames_window, result, artifact, live, fb, err) ==
    LET video == result.frame_count > 0 /\ artifact
        route == IF task.inline /\ frames_window # <<>> THEN "inline"
                 ELSE ChoosePath(video, result.audio_us)
        failed == result.raised \/ (live = "raise" /\ fb = "raise")
        response == IF live = "raise" THEN ResponseText(fb) ELSE ResponseText(live)
        path == IF live = "raise" THEN "fallback_text" ELSE route
        notice == IF OrEmptyText(text) # ""
                  THEN <<TranscriptNotice(OrEmptyText(text))>> ELSE <<>>
        msgs == IF failed THEN MainErrorMsgs(text, err)
                ELSE notice
                     \o <<SegmentSummary(response, text, result.frame_count > 0,
                                         FALSE, path)>>
                     \o (IF response # "" THEN <<ResponseMsg(response)>> ELSE <<>>)
    IN  [ran |-> TRUE, start |-> task.start, end |-> task.end,
         waited |-> ~task.skip, text |-> text,
         status |-> IF failed THEN "error" ELSE "ok",
         route |-> IF result.raised THEN "-" ELSE route,
         path |-> IF failed THEN "error_fallback" ELSE path,
         frame_count |-> result.frame_count, audio_us |-> result.audio_us,
         artifact |-> video, msgs |-> msgs]

\* WebSocketService._finalize_segment, called with the segment's bounds only
AppFinalize(task, found, result, artifact, live, fb) ==
    LET text == OrEmptyText(found.text)
        video == result.frame_count > 0 /\ artifact
        route == ChoosePath(video, result.audio_us)
        failed == result.raised \/ live = "raise"
        fallback_response == IF fb = "raise" THEN "" ELSE ResponseText(fb)
        response == ResponseText(live)
        path == IF route = "text" \/ text = "" THEN route ELSE route \o "+text"
        notice == IF text # "" THEN <<TranscriptNotice(text)>> ELSE <<>>
        msgs == IF found.raised THEN <<>>
                ELSE IF failed
                THEN <<SegmentSummary(fallback_response, Some(text), FALSE, TRUE, "-")>>
                     \o (IF fallback_response # ""
                         THEN <<ResponseMsg(fallback_response)>> ELSE <<>>)
                ELSE notice
                     \o <<SegmentSummary(response, Some(text), video, FALSE, path)>>
                     \o (IF response # "" THEN <<ResponseMsg(response)>> ELSE <<>>)
    IN  [ran |-> TRUE, start |-> task.start, end |-> task.end,
         waited |-> TRUE, text |-> found.text,
         status |-> IF found.raised THEN "silent"
                    ELSE IF failed THEN "error" ELSE "ok",
         route |-> IF found.raised \/ result.raised THEN "-" ELSE route,
         path |-> IF found.raised \/ failed THEN "-" ELSE path,
         frame_count |-> IF found.raised THEN 0 ELSE result.frame_count,
         audio_us |-> IF found.raised THEN 0 ELSE result.audio_us,
         artifact |-> ~found.raised /\ video, msgs |-> msgs]

\* the outcomes of the environment that a finalize run of main.py can meet,
\* given the encoder's result
MainEnvs(result) ==
    LET arts == IF result.frame_count > 0 THEN BOOLEAN ELSE {FALSE}
        texts == CollaboratorOutcomes \ {"raise"}
    IN  IF result.raised
        THEN {[artifact |-> FALSE, live |-> "", fb |-> "", err |-> o] :
                 o \in CollaboratorOutcomes}
        ELSE {[artifact |-> a, live |-> l, fb |-> "", err |-> ""] :
                 a \in arts, l \in texts}
             \cup {[artifact |-> a, live |-> "raise", fb |-> f, err |-> ""] :
                      a \in arts, f \in texts}
             \cup {[artifact |-> a, live |-> "raise", fb |-> "raise", err |-> o] :
                      a \in arts, o \in CollaboratorOutcomes}

AppEnvs(result) ==
    LET arts == IF result.frame_count > 0 THEN BOOLEAN ELSE {FALSE}
        texts == CollaboratorOutcomes \ {"raise"}
    IN  IF result.raised
        THEN {[artifact |-> FALSE, live |-> "", fb |-> o] :
                 o \in CollaboratorOutcomes}
        ELSE {[artifact |-> a, live |-> l, fb |-> ""] : a \in arts, l \in texts}
             \cup {[artifact |-> a, live |-> "raise", fb |-> o] :
                      a \in arts, o \in CollaboratorOutcomes}

\* main.py: the transcript message
MainTranscript(m) ==
    /\ impl = "main"
    /\ IF m.ok /\ m.final
       THEN LET appended == Append(transcripts, [ts |-> Some(m.ts), text |-> m.text])
            IN  /\ transcripts' = (IF Len(appended) > TranscriptLogCap
                                   THEN LastN(appended, TranscriptLogCap)
                                   ELSE appended)
                /\ sent' = <<Msg("transcript", "final", "-", 0, None, None),
                             Ack("transcript")>>
       ELSE /\ transcripts' = transcripts
            /\ sent' = <<Ack("transcript")>>
    /\ spawned' = <<>>
    /\ UNCHANGED <<impl, cfg, vad, sample_rate, frames, audio_chunks,
                   max_frames_buffer, max_audio_chunks, run, steps, tasks>>
    /\ fin' = FinInit
    /\ enc' = EncInit

\* main.py: the text message; the typed text is logged as a transcript and
\* a finalize of the trailing window is scheduled with the text provided
MainText(m) ==
    /\ impl = "main"
    /\ sent' = <<AckSeq("text", m.seq)>>
    /\ IF m.ok
       THEN LET appended == Append(transcripts, [ts |-> Some(m.ts), text |-> m.text])
                seg_end == LatestTs
                seg_start == Max(0, seg_end - ForcedWindowMs)
            IN  /\ transcripts' = (IF Len(appended) > TranscriptLogCap
                                   THEN LastN(appended, TranscriptLogCap)
                                   ELSE appended)
                /\ spawned' = <<[start |-> seg_start, end |-> seg_end]>>
                /\ tasks' = Append(tasks, [start |-> seg_start, end |-> seg_end,
                                           provided |-> Some(m.text), skip |-> TRUE,
                                           inline |-> TRUE,
                                           held |-> FramesWindow(frames, seg_start,
                                                                 seg_end)])
       ELSE /\ spawned' = <<>>
            /\ UNCHANGED <<transcripts, tasks>>
    /\ UNCHANGED <<impl, cfg, vad, sample_rate, frames, audio_chunks,
                   max_frames_buffer, max_audio_chunks, run, steps>>
    /\ fin' = FinInit
    /\ enc' = EncInit

\* the tasks created by a handler of main.py join the tasks in flight; the
\* step runs no finalize and calls no encoder
Scheduling ==
    /\ tasks' = tasks \o Tasks(spawned', 1)
    /\ fin' = FinInit
    /\ enc' = EncInit
    /\ UNCHANGED transcripts

\* a finalize task of main.py runs from the last pass of _await_transcript
\* over the log to its last message: the transcript is the provided one,
\* the newest one found in the log, or none when the deadline passes with
\* nothing found (the passes before, which find nothing and sleep, change
\* no state)
MainFinalizeSegment(i, mux_ok) ==
    /\ impl = "main"
    /\ i \in 1 .. Len(tasks)
    /\ LET task == tasks[i]
           found == MainFindTranscript(transcripts, task.start, task.end)
           text == IF task.skip THEN task.provided ELSE found
           frames_window == FramesWindow(frames, task.start, task.end)
           audio_window == AudioWindow(audio_chunks, task.start, task.end)
       IN  \E result \in {EncodeSegment(frames_window, audio_window, task.start,
                                       task.end, MainEncodeFps, mux_ok)} :
              /\ enc' = result
              /\ \E env \in MainEnvs(result) :
                    fin' = MainFinalize(task, text, frames_window, result,
                                        env.artifact, env.live, env.fb, env.err)
    /\ tasks' = SubSeq(tasks, 1, i - 1) \o SubSeq(tasks, i + 1, Len(tasks))
    /\ frames' = BufferAfterWindow(frames)
    /\ audio_chunks' = BufferAfterWindow(audio_chunks)
    /\ UNCHANGED <<impl, cfg, vad, sample_rate, max_frames_buffer, max_audio_chunks,
                   sent, spawned, steps, run, transcripts>>

\* WebSocketService: the transcript message; the entry is logged whatever
\* its timestamp is, final or not
AppHandleTranscript(m) ==
    /\ impl = "app"
    /\ transcripts' = (IF m.ok THEN Append(transcripts, [ts |-> m.ts, text |-> m.text])
                       ELSE transcripts)
    /\ sent' = <<>>
    /\ spawned' = <<>>
    /\ UNCHANGED <<impl, cfg, vad, sample_rate, frames, audio_chunks,
                   max_frames_buffer, max_audio_chunks, run, steps, tasks>>
    /\ fin' = FinInit
    /\ enc' = EncInit

\* WebSocketService: _handle_audio awaits _finalize_segment before it
\* returns, with the buffers as the handler left them
AppFinalizeInline(mux_ok) ==
    /\ IF spawned' = <<>>
       THEN /\ fin' = FinInit
            /\ enc' = EncInit
       ELSE LET task == Task(spawned'[1])
                found == AppFindTranscript(transcripts, task.start, task.end)
            IN  \E result \in {EncodeSegment(frames, audio_chunks', task.start,
                                             task.end, AppEncodeFps, mux_ok)} :
                   /\ enc' = (IF found.raised THEN EncInit ELSE result)
                   /\ \E env \in AppEnvs(result) :
                         fin' = AppFinalize(task, found, result,
                                            env.artifact, env.live, env.fb)
    /\ UNCHANGED <<transcripts, tasks>>

---------------------------------------------------------------------------
(* The event loop: one thread runs the receive loops of the connections    *)
(* and their finalize runs, each up to its next await.  encode_segment    *)
(* and the subprocess it starts are plain calls: the thread is inside     *)
(* them until they return.                                                 *)

Conns == {1, 2}

MaxRuns == 2
MaxGot == 1

\* the names mkdtemp can draw from
DirNames == 1 .. (MaxRuns + 1)

\* status: a connection is new, open (accepted, receive loop running) or
\* closed (the endpoint has returned); handler: the finalize run that the
\* connection's handler is awaiting, 0 at the receive; got: messages
\* handled; thread: the run whose blocking call holds the thread, 0 when
\* the loop is free to schedule; dirs: the temporary directories on disk
LoopInit ==
    [status |-> [c \in Conns |-> "new"], handler |-> [c \in Conns |-> 0],
     got |-> [c \in Conns |-> 0], thread |-> 0, runs |-> <<>>, dirs |-> {}]

NewRun(c) == [conn |-> c, phase |-> "wait", dir |-> None, outcome |-> "-"]

\* tempfile.mkdtemp: a name that is not on disk
Mkdtemp(dirs) == DirNames \ dirs

\* a variant that removes the directory on the success path only
LeaveTmpDirOnSuccess(dirs, d, outcome) ==
    IF outcome = "ok" THEN dirs \ {d} ELSE dirs

\* TemporaryDirectory.__exit__ removes the directory, however the block
\* was left
LeaveTmpDir(dirs, d, outcome) == dirs \ {d}

\* the receive loop of c is at its receive and the loop can schedule it
CanReceive(c) ==
    /\ loop.status[c] = "open"
    /\ loop.handler[c] = 0
    /\ loop.thread = 0

\* await websocket.accept()
LoopAccept(c) ==
    /\ loop.status[c] = "new"
    /\ loop.thread = 0
    /\ loop' = [loop EXCEPT !.status[c] = "open"]
    /\ UNCHANGED connvars

\* a message that ends no segment: buffered, fed or logged, acknowledged
LoopReceive(c) ==
    /\ CanReceive(c)
    /\ loop.got[c] < MaxGot
    /\ loop' = [loop EXCEPT !.got[c] = @ + 1]
    /\ UNCHANGED connvars

\* a message whose handling ends a segment: main.py creates a task for the
\* finalize and goes on; WebSocketService awaits the finalize in the handler
LoopSegmentEnd(c) ==
    /\ CanReceive(c)
    /\ Len(loop.runs) < MaxRuns
    /\ loop' = [loop EXCEPT !.runs = Append(@, NewRun(c)),
                            !.handler[c] = IF impl = "app"
                                           THEN Len(loop.runs) + 1 ELSE @]
    /\ UNCHANGED connvars

\* the transcript wait of run i is over: the directory is made and
\* encode_segment is entered
FinalizeWaitEnd(i) ==
    /\ i \in DOMAIN loop.runs
    /\ loop.runs[i].phase = "wait"
    /\ loop.thread = 0
    /\ \E d \in Mkdtemp(loop.dirs) :
          loop' = [loop EXCEPT !.runs[i].phase = "encode",
                               !.runs[i].dir = Some(d),
                               !.dirs = @ \cup {d},
                               !.thread = i]
    /\ UNCHANGED connvars

\* encode_segment returns or raises.  main.py: a result is followed by the
\* awaited collaborator call, an exception leaves the with block for the
\* handler that awaits a fallback answer and reports.  WebSocketService:
\* both are followed, inside the with block, by a collaborator call that is
\* a plain call as well
FinalizeEncodeEnd(i, ok) ==
    /\ i \in DOMAIN loop.runs
    /\ loop.runs[i].phase = "encode"
    /\ loop.thread = i
    /\ LET d == loop.runs[i].dir[1]
       IN  IF impl = "main"
           THEN IF ok
                THEN loop' = [loop EXCEPT !.runs[i].phase = "call",
                                          !.thread = 0]
                ELSE loop' = [loop EXCEPT !.runs[i].phase = "report",
                                          !.runs[i].outcome = "encode_failed",
                                          !.runs[i].dir = None,
                                          !.dirs = LeaveTmpDir(@, d, "encode_failed"),
                                          !.thread = 0]
           ELSE loop' = [loop EXCEPT !.runs[i].phase = "call",
                                     !.runs[i].outcome = IF ok THEN "-"
                                                         ELSE "encode_failed"]
    /\ UNCHANGED connvars

\* the collaborator has answered or failed: the messages are sent and the
\* with block is left
FinalizeFinish(i, answered) ==
    /\ i \in DOMAIN loop.runs
    /\ loop.runs[i].phase \in {"call", "report"}
    /\ loop.thread = (IF impl = "main" THEN 0 ELSE i)
    /\ LET held == IF loop.runs[i].dir = None THEN {} ELSE {loop.runs[i].dir[1]}
           outcome == IF loop.runs[i].outcome = "encode_failed"
                      THEN "encode_failed"
                      ELSE IF answered THEN "ok" ELSE "collab_failed"
       IN  loop' = [loop EXCEPT !.runs[i].phase = "done",
                                !.runs[i].outcome = outcome,
                                !.runs[i].dir = None,
                                !.dirs = IF held = {} THEN @
                                         ELSE LeaveTmpDir(@, loop.runs[i].dir[1],
                                                          outcome),
                                !.thread = 0,
                                !.handler[loop.runs[i].conn] = 0]
    /\ UNCHANGED connvars

\* the receive raises on the closed socket (main.py) or iter_text ends
\* (WebSocketService); the endpoint's finally cancels the status task, and
\* nothing else
LoopDisconnect(c) ==
    /\ CanReceive(c)
    /\ loop' = [loop EXCEPT !.status[c] = "closed"]
    /\ UNCHANGED connvars

---------------------------------------------------------------------------
(* server/connection_manager.py: ConnectionManager.  A websocket is known  *)
(* by the connection id that connect gave it; uuid4 never repeats, so the  *)
(* ids are handed out in order.                                            *)

SessionIds == {"s", "t"}

\* everything but the manager
nonmanagervars == <<impl, cfg, vad, sample_rate, frames, audio_chunks,
                    max_frames_buffer, max_audio_chunks, sent, spawned, steps,
                    run, transcripts, tasks, fin, enc, loop, bridge>>

\* a dict without its key k
DictDel(d, k) == [x \in (DOMAIN d) \ {k} |-> d[x]]

\* a dict after d[k] = v
DictSet(d, k, v) == [x \in (DOMAIN d) \cup {k} |-> IF x = k THEN v ELSE d[x]]

EmptyDict == [x \in {} |-> None]

\* ConnectionManager.__init__; issued counts the ids handed out
ManagerInit ==
    [active_connections |-> {}, session_to_connection |-> EmptyDict,
     connection_metadata |-> EmptyDict, issued |-> 0]

\* connect(websocket, session_id), session_id None or a non-empty string
Connect(session_id) ==
    /\ connection_manager.issued < MaxConnections
    /\ LET connection_id == connection_manager.issued + 1
       IN  connection_manager' =
              [active_connections |->
                   connection_manager.active_connections \cup {connection_id},
               connection_metadata |->
                   DictSet(connection_manager.connection_metadata,
                           connection_id, session_id),
               session_to_connection |->
                   IF session_id # None
                   THEN DictSet(connection_manager.session_to_connection,
                                session_id[1], connection_id)
                   ELSE connection_manager.session_to_connection,
               issued |-> connection_id]
    /\ UNCHANGED nonmanagervars

\* disconnect(connection_id)
Disconnect(connection_id) ==
    /\ IF connection_id \in connection_manager.active_connections
       THEN LET session_id == connection_manager.connection_metadata[connection_id]
            IN  connection_manager' =
                   [connection_manager EXCEPT
                      !.active_connections = @ \ {connection_id},
                      !.connection_metadata = DictDel(@, connection_id),
                      !.session_to_connection =
                          IF session_id # None /\ session_id[1] \in DOMAIN @
                          THEN DictDel(@, session_id[1]) ELSE @]
       ELSE UNCHANGED connection_manager
    /\ UNCHANGED nonmanagervars

\* update_session_id(connection_id, session_id), as handle_init calls it:
\* with a non-empty session id
UpdateSessionId(connection_id, session_id) ==
    /\ IF connection_id \in connection_manager.active_connections
       THEN LET old_session == connection_manager.connection_metadata[connection_id]
                unmapped ==
                    IF old_session # None
                       /\ old_session[1] \in DOMAIN connection_manager.session_to_connection
                    THEN DictDel(connection_manager.session_to_connection,
                                 old_session[1])
                    ELSE connection_manager.session_to_connection
            IN  connection_manager' =
                   [connection_manager EXCEPT
                      !.connection_metadata = DictSet(@, connection_id, Some(session_id)),
                      !.session_to_connection = DictSet(unmapped, session_id, connection_id)]
       ELSE UNCHANGED connection_manager
    /\ UNCHANGED nonmanagervars

\* get_connection_by_session(session_id): the websocket, or None
GetConnectionBySession(session_id) ==
    IF session_id \in DOMAIN connection_manager.session_to_connection
    THEN LET connection_id == connection_manager.session_to_connection[session_id]
         IN  IF connection_id \in connection_manager.active_connections
             THEN Some(connection_id) ELSE None
    ELSE None

---------------------------------------------------------------------------
(* server/app/stream_bridge.py and server/app/adk_session.py: the receive  *)
(* loop of LiveStreamBridge over the bridge that session_start selects,    *)
(* FallbackEchoBridge or ADKLiveBridge.  A text is a sequence of           *)
(* characters.  The handler of activity_end stays inside stream_deltas     *)
(* over several awaits (pc), during which the consumer task of the ADK     *)
(* bridge goes on filling _out_q.  The flags and turn metrics that are     *)
(* only logged are left out.  Every text carries the number of the turn it *)
(* was produced for (from) and of the turn it is delivered in (turn),      *)
(* turns being counted by their turn_complete (answered).                  *)

UserTexts == {<<>>, <<"h">>, <<"h", "i">>}
LivePieces == {<<"a">>}
FallbackTexts == {<<"f">>}
IdleTimeouts == {500, 1000}

\* everything but the bridge
nonbridgevars == <<impl, cfg, vad, sample_rate, frames, audio_chunks,
                   max_frames_buffer, max_audio_chunks, sent, spawned, steps,
                   run, transcripts, tasks, fin, enc, loop, connection_manager>>

\* LiveStreamBridge.__init__: no bridge yet
BridgeInit ==
    [kind |-> "none", closing |-> FALSE, stopped |-> FALSE, pc |-> "receive",
     out |-> <<>>, answered |-> 0, text |-> <<>>, last_user_text |-> <<>>,
     awaiting_turn_end |-> FALSE, closed |-> FALSE, out_q |-> <<>>,
     idle_ticks |-> 0, idle_turn_timeout_ms |-> 0, ended |-> "-",
     fallback |-> None, produced |-> 0]

\* a message sent to the client
BridgeMsg(type) == [type |-> type, text |-> <<>>, from |-> 0, turn |-> 0]

TextDelta(text, from, turn) ==
    [type |-> "text_delta", text |-> text, from |-> from, turn |-> turn]

\* an entry of _out_q
LiveEvent(kind, payload, turn) == [kind |-> kind, payload |-> payload, turn |-> turn]

\* the receive loop is at its receive
AtReceive == bridge.pc = "receive" /\ ~bridge.stopped

\* session_start: a new bridge, ADKLiveBridge when ADK and its credentials
\* are there and FallbackEchoBridge otherwise, started; then ok
SessionStart(kind, timeout) ==
    /\ AtReceive
    /\ bridge' = [bridge EXCEPT !.kind = kind, !.text = <<>>,
                                !.last_user_text = <<>>,
                                !.awaiting_turn_end = FALSE, !.closed = FALSE,
                                !.out_q = <<>>, !.idle_ticks = 0,
                                !.idle_turn_timeout_ms =
                                    IF kind = "adk" THEN timeout ELSE 0,
                                !.out = <<BridgeMsg("ok")>>]
    /\ UNCHANGED nonbridgevars

\* activity_start: start_turn of the bridge, then ok
ActivityStart ==
    /\ AtReceive
    /\ bridge' = [bridge EXCEPT
                     !.text = IF bridge.kind = "echo" THEN <<>> ELSE @,
                     !.awaiting_turn_end = IF bridge.kind = "adk" THEN FALSE ELSE @,
                     !.out = <<BridgeMsg("ok")>>]
    /\ UNCHANGED nonbridgevars

\* text_input: ingest_user_text of the bridge for a non-empty text; nothing
\* is sent
TextInput(text) ==
    /\ AtReceive
    /\ bridge' = [bridge EXCEPT
                     !.text = IF bridge.kind = "echo" /\ text # <<>> THEN text ELSE @,
                     !.last_user_text =
                         IF bridge.kind = "adk" /\ text # <<>> /\ ~bridge.closed
                         THEN text ELSE @,
                     !.out = <<>>]
    /\ UNCHANGED nonbridgevars

\* the end of a handler that sends ok only
EndOfTurnSilently(b, how) ==
    [b EXCEPT !.out = @ \o <<BridgeMsg("ok")>>,
              !.answered = @ + 1, !.pc = "receive", !.ended = how]

\* the end of the handler of activity_end: turn_complete, then ok
EndOfTurn(b, how) ==
    [b EXCEPT !.out = @ \o <<BridgeMsg("turn_complete"), BridgeMsg("ok")>>,
              !.answered = @ + 1, !.pc = "receive", !.ended = how]

\* FallbackEchoBridge.stream_deltas: the text in two halves
EchoPieces(text) ==
    IF text = <<>> THEN <<>>
    ELSE LET mid == Max(1, Len(text) \div 2)
         IN  <<SubSeq(text, 1, mid), SubSeq(text, mid + 1, Len(text))>>

\* the pieces that the handler sends: the non-empty ones
RECURSIVE SentPieces(_, _)
SentPieces(pieces, turn) ==
    IF pieces = <<>> THEN <<>>
    ELSE (IF Head(pieces) # <<>>
          THEN <<TextDelta(Head(pieces), turn, turn)>> ELSE <<>>)
         \o SentPieces(Tail(pieces), turn)

\* activity_end: end_turn of the bridge, then its stream_deltas.  Without a
\* bridge, and when end_turn raises, the turn is over at once; the echo
\* bridge streams without waiting for anything; the ADK bridge goes on in
\* StreamGet and StreamTimeout
ActivityEnd(raises) ==
    /\ AtReceive
    /\ bridge.answered < MaxTurns
    /\ raises => bridge.kind # "none"
    /\ LET b == [bridge EXCEPT !.out = <<>>, !.ended = "-", !.fallback = None]
       IN  bridge' =
             IF bridge.kind = "none" THEN EndOfTurn(b, "no_bridge")
             ELSE IF raises THEN EndOfTurn(b, "raised")
             ELSE IF bridge.kind = "echo"
             THEN EndOfTurn([b EXCEPT !.out = SentPieces(EchoPieces(bridge.text),
                                                         bridge.answered)],
                            "echo")
             ELSE [b EXCEPT !.awaiting_turn_end = TRUE, !.idle_ticks = 0,
                            !.pc = "stream"]
    /\ UNCHANGED nonbridgevars

\* ADKLiveBridge.stream_deltas, an entry of _out_q within the half second:
\* a text is yielded and sent as a text_delta, turn_end and error end the
\* stream
StreamGet ==
    /\ bridge.pc = "stream"
    /\ bridge.out_q # <<>>
    /\ LET ev == Head(bridge.out_q)
           b == [bridge EXCEPT !.out_q = Tail(@)]
       IN  bridge' =
             IF ev.kind = "text" /\ ev.payload # <<>>
             THEN [b EXCEPT !.out = Append(@, TextDelta(ev.payload, ev.turn,
                                                        bridge.answered)),
                            !.idle_ticks = 0]
             ELSE IF ev.kind = "turn_end" THEN EndOfTurn(b, "turn_end")
             ELSE IF ev.kind = "error" THEN EndOfTurn(b, "error")
             ELSE b
    /\ UNCHANGED nonbridgevars

\* the idle window is over after this many half seconds without an entry
IdleExpired(idle_ticks, timeout) == idle_ticks * TickMs >= timeout

\* half a second without an entry that is not counted
StreamTimeoutUncounted ==
    /\ bridge.pc = "stream"
    /\ bridge.out_q = <<>>
    /\ UNCHANGED vars

\* ADKLiveBridge.stream_deltas, half a second without an entry: while the
\* turn's end is awaited the tick counts, and at the end of the idle window
\* the stream turns to the non-live fallback
StreamTimeout ==
    /\ bridge.pc = "stream"
    /\ bridge.out_q = <<>>
    /\ bridge' =
          IF bridge.awaiting_turn_end
          THEN [bridge EXCEPT
                  !.idle_ticks = @ + 1,
                  !.pc = IF IdleExpired(bridge.idle_ticks + 1,
                                        bridge.idle_turn_timeout_ms)
                         THEN "fallback" ELSE @]
          ELSE bridge
    /\ UNCHANGED nonbridgevars

\* what _run_text_fallback can return: None without a user text, and else
\* None or the text of the runner's answer
FallbackResults ==
    IF bridge.last_user_text = <<>> THEN {None}
    ELSE {None} \cup {Some(t) : t \in FallbackTexts}

\* ADKLiveBridge.stream_deltas, _run_text_fallback has returned: a
\* non-empty text is put on _out_q, and the stream ends
FallbackReturn(fallback_text) ==
    /\ bridge.pc = "fallback"
    /\ fallback_text \in FallbackResults
    /\ LET b == [bridge EXCEPT
                   !.fallback = fallback_text,
                   !.out_q = IF fallback_text # None
                             THEN Append(@, LiveEvent("text", fallback_text[1],
                                                      bridge.answered))
                             ELSE @]
       IN  bridge' = EndOfTurn(b, "idle")
    /\ UNCHANGED nonbridgevars

\* the bridge raises while it streams: the handler's except ends the turn
StreamRaise ==
    /\ bridge.pc = "stream"
    /\ bridge' = EndOfTurn(bridge, "raised")
    /\ UNCHANGED nonbridgevars

\* the consumer task is running and may put an entry on _out_q
Consuming ==
    /\ bridge.kind = "adk"
    /\ ~bridge.closed
    /\ bridge.produced < MaxEvents

\* _consume_live_events: a piece of text of a live event
LiveText(piece) ==
    /\ Consuming
    /\ bridge' = [bridge EXCEPT
                     !.out_q = Append(@, LiveEvent("text", piece, bridge.answered)),
                     !.produced = @ + 1]
    /\ UNCHANGED nonbridgevars

\* _consume_live_events: the live event that completes the turn
LiveTurnEnd ==
    /\ Consuming
    /\ bridge' = [bridge EXCEPT
                     !.out_q = Append(@, LiveEvent("turn_end", <<>>, bridge.answered)),
                     !.produced = @ + 1]
    /\ UNCHANGED nonbridgevars

\* _consume_live_events: the consumer fails
LiveFailed ==
    /\ Consuming
    /\ bridge' = [bridge EXCEPT
                     !.out_q = @ \o <<LiveEvent("error", <<>>, bridge.answered),
                                      LiveEvent("turn_end", <<>>, bridge.answered)>>,
                     !.produced = @ + 1]
    /\ UNCHANGED nonbridgevars

\* session_end: ok, the websocket and the bridge are closed, and the loop
\* stops
SessionEnd ==
    /\ AtReceive
    /\ bridge' = [bridge EXCEPT !.out = <<BridgeMsg("ok")>>,
                                !.closed = IF bridge.kind = "adk" THEN TRUE ELSE @,
                                !.closing = TRUE, !.stopped = TRUE]
    /\ UNCHANGED nonbridgevars

\* ping: pong
Ping ==
    /\ AtReceive
    /\ bridge' = [bridge EXCEPT !.out = <<BridgeMsg("pong")>>]
    /\ UNCHANGED nonbridgevars

\* a text that is not JSON, or a message of another type: an error message
BridgeBadMessage ==
    /\ AtReceive
    /\ bridge' = [bridge EXCEPT !.out = <<BridgeMsg("error")>>]
    /\ UNCHANGED nonbridgevars

\* the websocket disconnects, or receive fails: the loop stops
BridgeDisconnect ==
    /\ AtReceive
    /\ bridge' = [bridge EXCEPT !.out = <<>>, !.stopped = TRUE]
    /\ UNCHANGED nonbridgevars

---------------------------------------------------------------------------
(* Specification *)

InitWith(configs, caps) ==
    /\ impl \in {"main", "app"}
    /\ cfg \in configs
    /\ vad = VadInit
    /\ sample_rate = 1000
    /\ frames = <<>>
    /\ audio_chunks = <<>>
    /\ max_frames_buffer \in caps
    /\ max_audio_chunks \in caps
    /\ sent = <<>>
    /\ spawned = <<>>
    /\ steps = <<>>
    /\ run = RunInit
    /\ transcripts = <<>>
    /\ tasks = <<>>
    /\ fin = FinInit
    /\ enc = EncInit
    /\ loop = LoopInit
    /\ connection_manager = ManagerInit
    /\ bridge = BridgeInit

InitSessionRates == {-1, 1000}

\* the exploration stops where a counter or a buffer would pass its bound
WithinBounds ==
    /\ vad.speech_ms <= MaxRunFrames * cfg.frame_ms
    /\ vad.silence_ms <= MaxRunFrames * cfg.frame_ms
    /\ Len(frames) <= MaxCap + 1
    /\ Len(audio_chunks) <= MaxCap + 1

\* the segmenter under every input, one-entry buffers; the finalizer's side
\* is followed in SpecFin only
Init == InitWith(EnvConfigs, {1})

SpecFrameMsgs == FrameMsgsOver({MaxTs})

AppFrameMsgs == SpecFrameMsgs \cup {NonNumericFrameMsg}

Next ==
    \/ \E sr \in InitSessionRates : MainInit(sr, None) /\ WithinBounds' /\ UNCHANGED finvars
    \/ \E m \in SpecFrameMsgs : MainImageFrame(m) /\ WithinBounds' /\ UNCHANGED finvars
    \/ \E m \in AudioMsgs : MainAudioChunk(m) /\ WithinBounds' /\ UNCHANGED finvars
    \/ \E a \in ControlActions : MainControl(a) /\ WithinBounds' /\ UNCHANGED finvars
    \/ \E m \in AppFrameMsgs : AppHandleFrame(m) /\ WithinBounds' /\ UNCHANGED finvars
    \/ \E m \in AudioMsgs : AppHandleAudio(m) /\ WithinBounds' /\ UNCHANGED finvars
    \/ \E ts \in TsInputs : AppForceSegmentEnd(ts) /\ WithinBounds' /\ UNCHANGED finvars

Spec == Init /\ [][Next]_vars

\* the buffers under every cap, one-frame chunks at the session's rate
BufTs == {0, 1}

InitBuf == InitWith({CfgA}, 0 .. MaxCap)

BufFrameMsgs == FrameMsgsOver(BufTs)

BufAudioMsgs == AudioMsgsOver(BufTs, {<<40>>, <<16000>>}, {1000})

NextBuf ==
    \/ \E sr \in InitSessionRates : MainInit(sr, None) /\ WithinBounds' /\ UNCHANGED finvars
    \/ \E m \in BufFrameMsgs : MainImageFrame(m) /\ WithinBounds' /\ UNCHANGED finvars
    \/ \E m \in BufAudioMsgs : MainAudioChunk(m) /\ WithinBounds' /\ UNCHANGED finvars
    \/ \E a \in ControlActions : MainControl(a) /\ WithinBounds' /\ UNCHANGED finvars
    \/ \E m \in BufFrameMsgs : AppHandleFrame(m) /\ WithinBounds' /\ UNCHANGED finvars
    \/ \E m \in BufAudioMsgs : AppHandleAudio(m) /\ WithinBounds' /\ UNCHANGED finvars
    \/ \E ts \in BufTs : AppForceSegmentEnd(ts) /\ WithinBounds' /\ UNCHANGED finvars

SpecBuf == InitBuf /\ [][NextBuf]_vars

---------------------------------------------------------------------------
(* Scenario A of server/test_websocket.py: 17 speech chunks, then 34        *)
(* near-silent chunks, 480 samples each at 16 kHz, 30 ms apart.  The test's *)
(* sine (amplitude 16000) and noise (-50 .. 49) samples are replaced by     *)
(* samples of their mean magnitude, 10186 and 25.                           *)

ScenarioFrameSamples == 480
ScenarioSpeechFrames == 17
ScenarioSilenceFrames == 34

ScenarioPcm(a) == [i \in 1 .. ScenarioFrameSamples |-> IF i % 2 = 1 THEN a ELSE -a]

ScenarioStarts == {0, 1000, 100000}

ScenarioFed == Len(audio_chunks)

ScenarioChunk(t0, pcm, ts) ==
    LET m == [ok |-> TRUE, ts |-> ts, pcm |-> pcm,
              num |-> ScenarioFrameSamples, sr |-> DefaultSampleRate]
    IN  (MainAudioChunk(m) \/ AppHandleAudio(m)) /\ UNCHANGED finvars

ScenarioSpeechChunk ==
    /\ ScenarioFed < ScenarioSpeechFrames
    /\ \E t0 \in (IF ScenarioFed = 0 THEN ScenarioStarts ELSE {audio_chunks[1].ts}) :
          ScenarioChunk(t0, ScenarioPcm(10186),
                        t0 + ScenarioFed * DefaultFrameMs)

ScenarioSilenceChunk ==
    /\ ScenarioFed >= ScenarioSpeechFrames
    /\ ScenarioFed < ScenarioSpeechFrames + ScenarioSilenceFrames
    /\ LET t0 == audio_chunks[1].ts
       IN  ScenarioChunk(t0, ScenarioPcm(25),
                         t0 + ScenarioSpeechFrames * DefaultFrameMs
                            + (ScenarioFed - ScenarioSpeechFrames) * DefaultFrameMs)

InitA ==
    /\ impl \in {"main", "app"}
    /\ cfg = DefaultCfg
    /\ vad = VadInit
    /\ sample_rate = DefaultSampleRate
    /\ frames = <<>>
    /\ audio_chunks = <<>>
    /\ max_frames_buffer = DefaultMaxBuffer
    /\ max_audio_chunks = DefaultMaxBuffer
    /\ sent = <<>>
    /\ spawned = <<>>
    /\ steps = <<>>
    /\ run = RunInit
    /\ transcripts = <<>>
    /\ tasks = <<>>
    /\ fin = FinInit
    /\ enc = EncInit
    /\ loop = LoopInit
    /\ connection_manager = ManagerInit
    /\ bridge = BridgeInit

NextA == ScenarioSpeechChunk \/ ScenarioSilenceChunk

SpecA == InitA /\ [][NextA]_vars

---------------------------------------------------------------------------
(* The finalizer under the handlers: transcripts, finalize tasks and their *)
(* runs, with one-entry buffers                                            *)

InitFin == InitWith({CfgC}, {1})

\* a frame after the segments that chunks at 0 ms give rise to, and inside
\* the forced windows that end at the newest entry
FinFrameMsgs == FrameMsgsOver({5})

\* a speech chunk of 1 ms at twice the session's rate
OtherRateMsg == [ok |-> TRUE, ts |-> 0, pcm |-> <<16000, 16000>>, num |-> 2,
                 sr |-> 2000]

FinAudioMsgs == AudioMsgsOver({0}, {<<40>>, <<16000>>}, {1000}) \cup {OtherRateMsg}

\* one message whose timestamp float() rejects stands for all of them
MainTranscriptMsgs ==
    {[ok |-> FALSE, ts |-> 0, text |-> "", final |-> TRUE]} \cup
    {[ok |-> TRUE, ts |-> 0, text |-> "", final |-> FALSE],
     [ok |-> TRUE, ts |-> 1000, text |-> "hello", final |-> TRUE]} \cup
    {[ok |-> TRUE, ts |-> 0, text |-> x, final |-> TRUE] : x \in Texts}

MainTextMsgs ==
    {[ok |-> FALSE, ts |-> 0, text |-> "", seq |-> None]} \cup
    {[ok |-> TRUE, ts |-> 0, text |-> "hello", seq |-> q] : q \in Seqs}

\* the finalizer is followed on text messages without seq
FinTextMsgs == {m \in MainTextMsgs : m.seq = None}

\* a message without ts_ms or text is dropped; a ts_ms that is not a number
\* (None here) is logged as it comes
AppTranscriptMsgs ==
    {[ok |-> FALSE, ts |-> None, text |-> ""]} \cup
    {[ok |-> TRUE, ts |-> None, text |-> ""],
     [ok |-> TRUE, ts |-> Some(1000), text |-> "hello"]} \cup
    {[ok |-> TRUE, ts |-> Some(0), text |-> x] : x \in Texts}

MaxLog == 2
MaxTasks == 1

\* the counters of the segmenter go as far as a segment needs
FinBounds ==
    /\ vad.speech_ms <= MaxTs * cfg.frame_ms
    /\ vad.silence_ms <= MaxTs * cfg.frame_ms
    /\ Len(transcripts) <= MaxLog
    /\ Len(tasks) <= MaxTasks

NextFin ==
    \/ \E m \in FinFrameMsgs : MainImageFrame(m) /\ Scheduling /\ FinBounds' /\ UNCHANGED <<loop, connection_manager, bridge>>
    \/ \E m \in FinAudioMsgs : MainAudioChunk(m) /\ Scheduling /\ FinBounds' /\ UNCHANGED <<loop, connection_manager, bridge>>
    \/ MainControl("forcesegmentclose") /\ Scheduling /\ FinBounds' /\ UNCHANGED <<loop, connection_manager, bridge>>
    \/ \E m \in MainTranscriptMsgs : MainTranscript(m) /\ FinBounds' /\ UNCHANGED <<loop, connection_manager, bridge>>
    \/ \E m \in FinTextMsgs : MainText(m) /\ FinBounds' /\ UNCHANGED <<loop, connection_manager, bridge>>
    \/ \E i \in 1 .. MaxTasks, mux_ok \in BOOLEAN :
          MainFinalizeSegment(i, mux_ok) /\ UNCHANGED <<loop, connection_manager, bridge>>
    \/ \E m \in FinFrameMsgs : AppHandleFrame(m) /\ Scheduling /\ FinBounds' /\ UNCHANGED <<loop, connection_manager, bridge>>
    \/ \E m \in FinAudioMsgs, mux_ok \in BOOLEAN :
          AppHandleAudio(m) /\ AppFinalizeInline(mux_ok) /\ FinBounds' /\ UNCHANGED <<loop, connection_manager, bridge>>
    \/ \E m \in AppTranscriptMsgs : AppHandleTranscript(m) /\ FinBounds' /\ UNCHANGED <<loop, connection_manager, bridge>>

SpecFin == InitFin /\ [][NextFin]_vars

---------------------------------------------------------------------------
(* The typed queries of main.py: init and text messages with their seq,    *)
(* frames for the inline image, and the finalize runs that answer          *)

InitAck ==
    /\ InitFin
    /\ impl = "main"

NextAck ==
    \/ \E sr \in InitSessionRates, seq \in Seqs :
          MainInit(sr, seq) /\ Scheduling /\ FinBounds' /\ UNCHANGED <<loop, connection_manager, bridge>>
    \/ \E m \in MainTextMsgs : MainText(m) /\ FinBounds' /\ UNCHANGED <<loop, connection_manager, bridge>>
    \/ \E m \in FinFrameMsgs : MainImageFrame(m) /\ Scheduling /\ FinBounds' /\ UNCHANGED <<loop, connection_manager, bridge>>
    \/ \E i \in 1 .. MaxTasks, mux_ok \in BOOLEAN :
          MainFinalizeSegment(i, mux_ok) /\ UNCHANGED <<loop, connection_manager, bridge>>

SpecAck == InitAck /\ [][NextAck]_vars

---------------------------------------------------------------------------
(* The receive loop of main.py under messages of every type, valid and     *)
(* malformed, and texts that are not messages; the finalizes it schedules  *)
(* stay pending                                                            *)

ProtoAudioMsgs == AudioMsgsOver({0}, {<<16000>>}, {1000})

NextProto ==
    \/ \E sr \in InitSessionRates, seq \in Seqs :
          MainInit(sr, seq) /\ Scheduling /\ FinBounds' /\ UNCHANGED <<loop, connection_manager, bridge>>
    \/ \E m \in FinFrameMsgs :
          MainImageFrame(m) /\ Scheduling /\ FinBounds' /\ UNCHANGED <<loop, connection_manager, bridge>>
    \/ \E m \in ProtoAudioMsgs :
          MainAudioChunk(m) /\ Scheduling /\ FinBounds' /\ UNCHANGED <<loop, connection_manager, bridge>>
    \/ \E m \in MainTranscriptMsgs :
          MainTranscript(m) /\ FinBounds' /\ UNCHANGED <<loop, connection_manager, bridge>>
    \/ \E m \in MainTextMsgs : MainText(m) /\ FinBounds' /\ UNCHANGED <<loop, connection_manager, bridge>>
    \/ \E a \in ControlActions :
          MainControl(a) /\ Scheduling /\ FinBounds' /\ UNCHANGED <<loop, connection_manager, bridge>>
    \/ MainInvalidJson /\ Scheduling /\ UNCHANGED <<loop, connection_manager, bridge>>
    \/ MainUnknownType /\ Scheduling /\ UNCHANGED <<loop, connection_manager, bridge>>

SpecProto == InitAck /\ [][NextProto]_vars

---------------------------------------------------------------------------
(* Frames around a segment of main.py, one-entry buffers: a frame at the   *)
(* end of the segment [0, 1] and a later one, which arrive before, during  *)
(* or after the transcript wait of the segment's finalize                  *)

WindowFrameMsgs == FrameMsgsOver({1, 2})

WindowAudioMsgs == AudioMsgsOver({0}, {<<40>>, <<16000>>}, {1000})

NextWindow ==
    \/ \E m \in WindowFrameMsgs :
          MainImageFrame(m) /\ Scheduling /\ FinBounds' /\ UNCHANGED <<loop, connection_manager, bridge>>
    \/ \E m \in WindowAudioMsgs :
          MainAudioChunk(m) /\ Scheduling /\ FinBounds' /\ UNCHANGED <<loop, connection_manager, bridge>>
    \/ \E i \in 1 .. MaxTasks, mux_ok \in BOOLEAN :
          MainFinalizeSegment(i, mux_ok) /\ UNCHANGED <<loop, connection_manager, bridge>>

SpecWindow == InitAck /\ [][NextWindow]_vars

---------------------------------------------------------------------------
(* The scheduling of two connections and their finalize runs *)

InitLoop == InitFin

NextLoop ==
    \/ \E c \in Conns : LoopAccept(c)
    \/ \E c \in Conns : LoopReceive(c)
    \/ \E c \in Conns : LoopSegmentEnd(c)
    \/ \E i \in 1 .. MaxRuns : FinalizeWaitEnd(i)
    \/ \E i \in 1 .. MaxRuns, ok \in BOOLEAN : FinalizeEncodeEnd(i, ok)
    \/ \E i \in 1 .. MaxRuns, answered \in BOOLEAN : FinalizeFinish(i, answered)
    \/ \E c \in Conns : LoopDisconnect(c)

SpecLoop == InitLoop /\ [][NextLoop]_vars

---------------------------------------------------------------------------
(* A session of main.py under the default configuration, one-entry         *)
(* buffers: chunks of one frame (30 ms at 1000 Hz), speech or silence,     *)
(* with init messages between them                                         *)

MaxSessionFrames == 11

SessionPcm(a) == [i \in 1 .. DefaultFrameMs |-> a]

SessionAudioMsgs ==
    {[ok |-> TRUE, ts |-> t, pcm |-> SessionPcm(a), num |-> DefaultFrameMs,
      sr |-> 1000] : t \in {0, 300}, a \in {40, 16000}}

\* speech as far as a segment_start needs, silence as far as a segment_end
SessionBounds ==
    /\ vad.speech_ms <= MaxSessionFrames * cfg.frame_ms
    /\ vad.silence_ms <= cfg.end_silence_ms

InitSession ==
    /\ InitWith({DefaultCfg}, {1})
    /\ impl = "main"

NextSession ==
    \/ \E sr \in InitSessionRates :
          MainInit(sr, None) /\ SessionBounds' /\ UNCHANGED finvars
    \/ \E m \in SessionAudioMsgs :
          MainAudioChunk(m) /\ SessionBounds' /\ UNCHANGED finvars

SpecSession == InitSession /\ [][NextSession]_vars

---------------------------------------------------------------------------
(* The encoder on its own: encode_segment applied to frame lists and chunk *)
(* lists drawn from bounded sets.  Low sample rates keep the chunks short  *)
(* as sequences and long as durations: at 2 Hz a sample lasts 500 ms.      *)

MaxChunks == 3
MaxEncFrames == 2

EncRates == {2, 4}
EncFps == {1, 2}
EncTimes == {0, 500, 1000, 1500, 2000}

\* chunks laid end to end from ts on, the i-th of nums[i] samples; the
\* samples are numbered through so that each one can be told from the others
RECURSIVE ChunkLayout(_, _, _, _, _)
ChunkLayout(nums, i, ts, sr, first) ==
    IF i > Len(nums) THEN <<>>
    ELSE <<[ts |-> ts, pcm |-> [k \in 1 .. nums[i] |-> first + k - 1],
            num |-> nums[i], sr |-> sr]>>
         \o ChunkLayout(nums, i + 1, ts + (nums[i] * 1000) \div sr, sr,
                        first + nums[i])

EncChunkLists ==
    {ChunkLayout(nums, 1, t0, sr, 1) :
        nums \in UNION {[1 .. n -> {1, 2}] : n \in 0 .. MaxChunks},
        t0 \in {0, 500}, sr \in EncRates}

EncFrameLists ==
    UNION {[1 .. n -> {[ts |-> t] : t \in {0, 500, 1000, 2000}}] :
              n \in 0 .. MaxEncFrames}

InitEnc ==
    /\ impl \in {"main", "app"}
    /\ cfg = CfgC
    /\ vad = VadInit
    /\ sample_rate \in EncRates
    /\ frames \in EncFrameLists
    /\ audio_chunks \in EncChunkLists
    /\ \A i \in 1 .. Len(audio_chunks) : audio_chunks[i].sr = sample_rate
    /\ max_frames_buffer = DefaultMaxBuffer
    /\ max_audio_chunks = DefaultMaxBuffer
    /\ sent = <<>>
    /\ spawned = <<>>
    /\ steps = <<>>
    /\ run = RunInit
    /\ transcripts = <<>>
    /\ tasks = <<>>
    /\ fin = FinInit
    /\ enc = EncInit
    /\ loop = LoopInit
    /\ connection_manager = ManagerInit
    /\ bridge = BridgeInit

\* the call of encode_segment on the lists, one in each behaviour
EncodeCall(s, e, fps, mux_ok) ==
    /\ ~enc.called
    /\ enc' = EncodeSegment(frames, audio_chunks, s, e, fps, mux_ok)
    /\ UNCHANGED <<impl, cfg, vad, sample_rate, frames, audio_chunks,
                   max_frames_buffer, max_audio_chunks, sent, spawned, steps,
                   run, transcripts, tasks, fin, loop, connection_manager,
                   bridge>>

NextEnc ==
    \E s \in EncTimes, e \in EncTimes, fps \in EncFps, mux_ok \in BOOLEAN :
        EncodeCall(s, e, fps, mux_ok)

SpecEnc == InitEnc /\ [][NextEnc]_vars

---------------------------------------------------------------------------
(* Properties *)

Range(q) == {q[i] : i \in 1 .. Len(q)}

FrameSteps == {st \in Range(steps) : st.kind = "frame"}

\* C1: after any sequence of appends, for every non-negative cap, the frame
\* buffer holds at most max_frames_buffer entries and the audio buffer at
\* most max_audio_chunks entries.
C1_BuffersWithinCaps ==
    /\ Len(frames) <= max_frames_buffer
    /\ Len(audio_chunks) <= max_audio_chunks

\* what the claim C2 says of one accepted append to a buffer of cap `cap`
AppendOutcome(before, entry, after, cap, what) ==
    LET appended == Append(before, entry)
        k == Len(appended) - cap
    IN  IF k > 0
        THEN /\ after = SubSeq(appended, k + 1, Len(appended))
             /\ Len(after) = cap
             /\ StatusBusy(what, k) \in Range(sent')
             /\ \A msg \in Range(sent') : msg.type # "error"
        ELSE /\ after = appended
             /\ \A msg \in Range(sent') : msg.state # "busy"

\* C2: an append that overflows the cap by k evicts exactly the k oldest
\* entries, leaves the length at the cap and reports k to the client in a
\* status message; an append that does not overflow reports no drop.
C2_OverflowEvictsAndReports ==
    [][ /\ \A m \in BufFrameMsgs :
             (m.ok /\ (MainImageFrame(m) \/ AppHandleFrame(m)))
                 => AppendOutcome(frames, [ts |-> m.ts], frames',
                                  max_frames_buffer, "droppedFrames")
        /\ \A m \in BufAudioMsgs :
             (m.ok /\ (MainAudioChunk(m) \/ AppHandleAudio(m)))
                 => AppendOutcome(audio_chunks,
                                  [ts |-> m.ts, pcm |-> m.pcm, num |-> m.num, sr |-> m.sr],
                                  audio_chunks', max_audio_chunks, "droppedAudioChunks")
      ]_vars

\* C3: every processed frame adds frame_ms to exactly one of speech_ms and
\* silence_ms and sets the other to 0, in the idle and in the speaking state
\* (the frame that closes a segment resets both and is left aside).
C3_ExclusiveAccumulators ==
    \A st \in FrameSteps :
        st.event.type # "segment_end" =>
            IF st.is_speech
            THEN /\ st.post.speech_ms = st.pre.speech_ms + cfg.frame_ms
                 /\ st.post.silence_ms = 0
            ELSE /\ st.post.silence_ms = st.pre.silence_ms + cfg.frame_ms
                 /\ st.post.speech_ms = 0

\* C4: segment_start is emitted at a frame only if the segmenter is idle and
\* the consecutive speech frames ending at that frame total at least
\* min_speech_ms, and never while an announced segment is still open.
C4_StartOnlyAfterContiguousSpeech ==
    \A st \in FrameSteps :
        st.event.type = "segment_start" =>
            /\ st.pre.state = "idle"
            /\ st.is_speech
            /\ st.run.speech >= cfg.min_speech_ms
            /\ ~st.was_open

C6_EndAtSilenceThreshold ==
    \A st \in FrameSteps :
        /\ st.event.type = "segment_end"
              <=> (st.pre.state = "speaking" /\ ~st.is_speech
                   /\ st.run.silence >= cfg.end_silence_ms)
        /\ st.event.type = "segment_end"
              => (st.was_open /\ ~st.run.open /\ st.post.state = "idle")

C6_Witness ==
    \E st \in FrameSteps :
        /\ st.event.type = "segment_end"
        /\ st.pre.silence_ms > 0

\* C7: every emitted segment_end has end = timestamp of the segment's last
\* speech frame + post_roll_ms, and end >= start.
C7_EndIsLastSpeechPlusPostRoll ==
    \A st \in FrameSteps :
        st.event.type = "segment_end" =>
            /\ st.event.segment_end_ms
                   = Some(st.pre.last_speech_ts_ms[1] + cfg.post_roll_ms)
            /\ st.event.segment_end_ms[1] >= st.event.segment_start_ms[1]

\* C8: in Scenario A the only events are one segment_start, at the 10th
\* speech frame, and one segment_end, at the 27th silence frame, the first
\* at which the accumulated silence is at least 800 ms.
C8_ScenarioAEvents ==
    ScenarioFed >= 1 =>
        /\ Len(steps) = 1
        /\ steps[1].event.type =
              (IF ScenarioFed = 10 THEN "segment_start"
               ELSE IF ScenarioFed = ScenarioSpeechFrames + 27 THEN "segment_end"
               ELSE "none")
        /\ steps[1].event.type = "segment_end" =>
              /\ steps[1].pre.silence_ms < DefaultEndSilenceMs
              /\ steps[1].pre.silence_ms + DefaultFrameMs >= DefaultEndSilenceMs
        /\ steps[1].is_speech = (ScenarioFed <= ScenarioSpeechFrames)
        /\ impl = "main" =>
              /\ (ScenarioFed = 10) = (\E msg \in Range(sent) : msg.state = "speaking")
              /\ (ScenarioFed = ScenarioSpeechFrames + 27)
                    = (\E msg \in Range(sent) : msg.state = "segment_closed")

C8_Witness ==
    /\ ScenarioFed = ScenarioSpeechFrames + ScenarioSilenceFrames
    /\ vad.state = "idle"
    /\ ~run.open

\* C9: immediately after every segment close, by silence or by force-close,
\* the segmenter is idle with speech_ms = 0, silence_ms = 0 and both speech
\* timestamps cleared.
C9_ResetAfterEveryClose ==
    [][ /\ \A i \in 1 .. Len(steps') :
              steps'[i].event.type = "segment_end" => steps'[i].post = VadInit
        /\ (MainControl("forcesegmentclose") /\ vad.state = "speaking")
              => vad' = VadInit
      ]_vars

\* C10: a force-close while a segment is active ends it at last_speech_ts +
\* post_roll_ms and returns the segmenter to idle; a force-close while idle
\* makes the segmenter emit nothing.
C10_ForceCloseEndsActiveSegment ==
    [][ /\ \A ts \in TsInputs :
              AppForceSegmentEnd(ts) =>
                  IF vad.state = "speaking"
                  THEN /\ steps'[1].event.type = "segment_end"
                       /\ steps'[1].event.segment_end_ms
                              = Some(vad.last_speech_ts_ms[1] + cfg.post_roll_ms)
                       /\ vad'.state = "idle"
                  ELSE /\ steps'[1].event.type = "none"
                       /\ vad' = vad
        /\ MainControl("forcesegmentclose") =>
                  IF vad.state = "speaking"
                  THEN /\ spawned' # <<>>
                       /\ spawned'[1].end = vad.last_speech_ts_ms[1] + cfg.post_roll_ms
                       /\ vad'.state = "idle"
                  ELSE vad' = vad
      ]_vars

---------------------------------------------------------------------------
(* Properties of the segment finalizer *)

MsgRank(type) == IF type = "transcript" THEN 1 ELSE IF type = "segment" THEN 2 ELSE 3

FinTypes(type) == {i \in 1 .. Len(fin.msgs) : fin.msgs[i].type = type}

\* C11: the messages of one finalize run go out in the order transcript
\* notice, segment summary, response text, on the success and on the failure
\* path: no response before the summary, no notice after it; a notice is
\* sent only if a transcript was resolved and a response only if its text is
\* not empty.
C11_MessageOrder ==
    fin.ran =>
        /\ \A i, j \in 1 .. Len(fin.msgs) :
               i < j => MsgRank(fin.msgs[i].type) < MsgRank(fin.msgs[j].type)
        /\ \A i \in FinTypes("transcript") :
               fin.text # None /\ fin.msgs[i].text = fin.text[1] /\ fin.text[1] # ""
        /\ \A i \in FinTypes("response") : fin.msgs[i].text # ""

\* a run that sent all three messages
C11_Witness ==
    /\ fin.ran
    /\ Len(fin.msgs) = 3
    /\ fin.status = "ok"

\* C12: every run of the finalizer sends exactly one segment summary,
\* whatever happens in it: no transcript, a failed encoder, a failed
\* collaborator.
C12_OneSummaryPerSegment ==
    fin.ran => Cardinality(FinTypes("segment")) = 1

\* C13: when the mux process exits non-zero, encode_segment raises; the
\* finalizer that called it sends one segment summary with encoded = false
\* and an error code, with the text of a text-only fallback call, then that
\* text as the response if it is not empty; the failure touches nothing of
\* the connection: the segmenter, the buffers, the transcript log and the
\* other finalize tasks are as they would be without it.
C13_MuxFailureHandled ==
    [][ (enc'.called /\ enc'.frame_count > 0 /\ ~enc'.muxed) =>
            /\ enc'.raised
            /\ fin'.ran
            /\ fin'.status = "error"
            /\ fin'.msgs # <<>>
            /\ fin'.msgs[1].type = "segment"
            /\ ~fin'.msgs[1].encoded
            /\ fin'.msgs[1].error
            /\ \A k \in 2 .. Len(fin'.msgs) :
                   /\ fin'.msgs[k].type = "response"
                   /\ fin'.msgs[k].text = fin'.msgs[1].text
            /\ Len(fin'.msgs) = (IF fin'.msgs[1].text = "" THEN 1 ELSE 2)
            /\ impl = "main" =>
                   /\ UNCHANGED <<vad, frames, audio_chunks, transcripts, sent>>
                   /\ Len(tasks') = Len(tasks) - 1
      ]_vars

\* a finalize run of main.py whose mux failed and whose fallback answered
C13_Witness ==
    /\ impl = "main"
    /\ enc.raised
    /\ fin.status = "error"
    /\ Len(fin.msgs) = 2
    /\ fin.msgs[2].text = "answer"

\* C14: a finalize run that is not a typed query answers along the video
\* path iff a frame was selected and the muxed file exists, otherwise along
\* the audio path iff the extracted audio has a duration, otherwise along
\* the text path; with an empty frame buffer and audio extracted no frame is
\* selected and the path is audio, with both buffers empty it is text.
C14_PathPriority ==
    (fin.ran /\ fin.route \notin {"-", "inline"}) =>
        /\ fin.route = "video" <=> (enc.frame_count > 0 /\ fin.artifact)
        /\ fin.route = "audio" <=> (~(enc.frame_count > 0 /\ fin.artifact)
                                       /\ enc.audio_us > 0)
        /\ fin.route = "text" <=> (~(enc.frame_count > 0 /\ fin.artifact)
                                      /\ enc.audio_us = 0)
        /\ (frames = <<>> /\ enc.pcm # <<>>)
               => (enc.frame_count = 0 /\ fin.route = "audio")
        /\ (frames = <<>> /\ audio_chunks = <<>>) => fin.route = "text"

\* Scenario B: the segment of a speech chunk with no frame buffered
C14_Witness ==
    /\ fin.ran
    /\ fin.waited
    /\ fin.end = 1
    /\ frames = <<>>
    /\ enc.audio_us > 0
    /\ enc.frame_count = 0
    /\ fin.route = "audio"

---------------------------------------------------------------------------
(* Properties of the encoder *)

\* C15: whenever at least one frame was selected, the durations of the
\* selected frames after the correction add up to the duration of the
\* extracted audio to within 1 ms, whatever the range, the frame rate and
\* the audio, short or empty audio included.
C15_DurationsMatchAudio ==
    (enc.called /\ enc.frame_count > 0) =>
        Abs(TotalDurationUs(enc.selected, 1) - enc.audio_us) <= DurationToleranceUs

ChunkEndMs(ch) == ch.ts + (ch.num * 1000) \div ch.sr

\* chunks of one rate, each starting where the one before ends
EndToEnd(chunks) ==
    /\ \A i \in 1 .. Len(chunks) :
           /\ chunks[i].sr = chunks[1].sr
           /\ Len(chunks[i].pcm) = chunks[i].num
           /\ ((chunks[i].num * 1000) % chunks[i].sr) = 0
    /\ \A i \in 1 .. Len(chunks) - 1 : ChunkEndMs(chunks[i]) = chunks[i + 1].ts

ChunkBoundaries(chunks) ==
    {chunks[i].ts : i \in 1 .. Len(chunks)} \cup {ChunkEndMs(chunks[Len(chunks)])}

\* the samples of the chunks that lie inside [s, e], in order
RECURSIVE SamplesInside(_, _, _, _)
SamplesInside(chunks, i, s, e) ==
    IF i > Len(chunks) THEN <<>>
    ELSE (IF s <= chunks[i].ts /\ ChunkEndMs(chunks[i]) <= e
          THEN chunks[i].pcm ELSE <<>>)
         \o SamplesInside(chunks, i + 1, s, e)

AlignedExtraction ==
    /\ enc.called
    /\ enc.chunks_in # <<>>
    /\ EndToEnd(enc.chunks_in)
    /\ enc.start \in ChunkBoundaries(enc.chunks_in)
    /\ enc.end \in ChunkBoundaries(enc.chunks_in)
    /\ enc.start <= enc.end

\* C16: for chunks of one rate laid end to end and a range whose ends fall
\* on chunk boundaries, the extracted audio is the concatenation of the
\* samples of the chunks inside the range: each once, in order, none from
\* outside.
C16_AlignedExtractionExact ==
    AlignedExtraction =>
        /\ enc.pcm = SamplesInside(enc.chunks_in, 1, enc.start, enc.end)
        /\ enc.sr = enc.chunks_in[1].sr

\* a range that holds the last two of three chunks and leaves the first out
C16_Witness ==
    /\ AlignedExtraction
    /\ Len(enc.chunks_in) = 3
    /\ enc.start = enc.chunks_in[2].ts
    /\ enc.end = ChunkEndMs(enc.chunks_in[3])
    /\ enc.pcm = enc.chunks_in[2].pcm \o enc.chunks_in[3].pcm
    /\ Len(enc.chunks_in[2].pcm) = 2

\* C17: frame selection steps t from the range's start to its end by
\* 1000 / fps; at each step it takes the earliest frame, in time order, at or
\* after t, never going back in the list, and repeats the frame taken last
\* when none remains; every entry has the step as its nominal duration; if
\* some frame lies in the range and the range is not empty, the number of
\* entries is floor((end - start) / step) + 1.
C17_SelectionSteps ==
    enc.called =>
        LET sel == enc.nominal
            sorted == FramesSorted(enc.frames_in)
            step == StepMs(enc.fps)
        IN  /\ enc.frame_count = Len(sel)
            /\ \A k \in 1 .. Len(sel) :
                   LET later == {j \in 1 .. Len(sorted) : sorted[j].ts >= sel[k].t}
                   IN  /\ sel[k].t = enc.start + (k - 1) * step
                       /\ sel[k].t <= enc.end
                       /\ sel[k].dur_us = step * 1000
                       /\ sel[k].ts = sorted[sel[k].src].ts
                       /\ k > 1 => sel[k].src >= sel[k - 1].src
                       /\ IF later # {}
                          THEN /\ ~sel[k].dup
                               /\ sel[k].src \in later
                               /\ \A j \in later : sel[k].src <= j
                          ELSE /\ sel[k].dup
                               /\ k > 1
                               /\ sel[k].src = sel[k - 1].src
            /\ (/\ enc.end > enc.start
                /\ \E j \in 1 .. Len(sorted) :
                       enc.start <= sorted[j].ts /\ sorted[j].ts <= enc.end)
                   => Len(sel) = (enc.end - enc.start) \div step + 1

\* a selection over frames given out of time order that takes two different
\* frames and then repeats the second
C17_Witness ==
    /\ enc.called
    /\ Len(enc.nominal) >= 3
    /\ enc.nominal[2].src # enc.nominal[1].src
    /\ enc.nominal[3].dup
    /\ enc.frames_in[1].ts > enc.frames_in[2].ts

---------------------------------------------------------------------------
(* Properties of the window and of the transcript resolution *)

\* C18: the frames handed to the encoder by a finalize run are exactly the
\* buffered frames with start <= ts <= end, and the chunks handed to it are
\* exactly the buffered chunks whose interval [ts, ts + samples / rate *
\* 1000] meets [start, end].
C18_EncoderGetsWindowOnly ==
    (fin.ran /\ enc.called) =>
        /\ enc.frames_in = FramesWindow(frames, fin.start, fin.end)
        /\ enc.chunks_in = AudioWindow(audio_chunks, fin.start, fin.end)

InRangeEntries(s, e) ==
    {i \in 1 .. Len(transcripts) :
        /\ transcripts[i].ts # None
        /\ InTranscriptRange(transcripts[i], s, e,
                             IF impl = "main" THEN TranscriptSlackMs ELSE 0)}

\* C20: the transcript resolution of a segment returns the text of a log
\* entry whose timestamp is in range whenever the log holds such an entry
\* when it is read, and never the text of an entry out of range.
C20_TranscriptResolved ==
    (fin.ran /\ fin.waited) =>
        /\ InRangeEntries(fin.start, fin.end) # {} => fin.text # None
        /\ fin.text # None =>
               \E i \in InRangeEntries(fin.start, fin.end) :
                   transcripts[i].text = fin.text[1]

\* C21: a transcript wait that no matching entry ends returns no transcript
\* without raising, and the finalize run goes on to the encoder and to its
\* segment summary.
C21_WaitEndsWithoutTranscript ==
    (fin.ran /\ fin.waited /\ InRangeEntries(fin.start, fin.end) = {}) =>
        /\ fin.text = None
        /\ fin.status # "silent"
        /\ enc.called
        /\ Cardinality(FinTypes("segment")) = 1

---------------------------------------------------------------------------
(* Properties of the handlers *)

\* C26: a malformed frame or audio message (data missing or undecodable, a
\* field that is not a number) is dropped: the buffers and the segmenter are
\* as before, nothing is scheduled, and main.py still acknowledges it.
C26_MalformedPayloadDropped ==
    [][ /\ \A m \in AppFrameMsgs :
             ((~m.ok \/ m.ts = NotANumber)
                 /\ (MainImageFrame(m) \/ AppHandleFrame(m)))
                => /\ UNCHANGED <<frames, audio_chunks, vad>>
                   /\ spawned' = <<>>
                   /\ impl = "main" => sent' = <<Ack("imageFrame")>>
        /\ \A m \in AudioMsgs :
             (~m.ok /\ (MainAudioChunk(m) \/ AppHandleAudio(m)))
                => /\ UNCHANGED <<frames, audio_chunks, vad>>
                   /\ spawned' = <<>>
                   /\ impl = "main" => sent' = <<Ack("audioChunk")>>
      ]_vars

\* C27 as stated: encode_segment never returns a result when no frame was
\* selected: selecting nothing is a failure raised to the caller.
C27_NoFramesIsFailure ==
    (enc.called /\ enc.frame_count = 0) => enc.raised

\* C27 amended: with no frame selected encode_segment runs no mux and
\* returns a result with frame_count = 0 and the audio it extracted; it
\* raises only when a frame was selected and the mux failed.
C27_NoFramesIsNormalResult ==
    enc.called =>
        /\ enc.frame_count = 0 => (~enc.raised /\ ~enc.muxed)
        /\ enc.raised => (enc.frame_count > 0 /\ ~enc.muxed)
        /\ enc.frame_count > 0 => (enc.raised \/ enc.muxed)

\* frames given, none selected, audio extracted, a result returned
C27_Witness ==
    /\ enc.called
    /\ enc.frames_in # <<>>
    /\ enc.frame_count = 0
    /\ enc.audio_us > 0
    /\ ~enc.raised

\* C28: an audio chunk whose sample rate is not the session's is not fed to
\* the classifier (the segmenter's state and counters stay as they are) and
\* gives no sample to an extracted audio window; an empty frame is silence.
C28_OtherRateChunkIgnored ==
    [][ /\ \A m \in FinAudioMsgs :
             (m.ok /\ m.sr # 0 /\ m.sr # sample_rate
                 /\ (MainAudioChunk(m) \/ AppHandleAudio(m)))
                => (vad' = vad /\ steps' = <<>>)
        /\ (enc'.called /\ enc'.pcm # <<>>) => enc'.sr = sample_rate'
        /\ ~FrameIsSpeech(<<>>)
      ]_vars

\* C29: an init message is answered by an ack of type init that echoes its
\* seq, a text message by an ack of type text; the ack of a text message
\* goes out before any response to that text: the handler sends it and only
\* schedules the finalize that will respond.
C29_AcksBeforeResponses ==
    [][ /\ \A sr \in InitSessionRates, seq \in Seqs :
             MainInit(sr, seq) =>
                 /\ sent' # <<>>
                 /\ sent'[1] = AckSeq("init", seq)
                 /\ sent'[1].type = "ack" /\ sent'[1].state = "init"
                 /\ sent'[1].seq = seq
        /\ \A m \in MainTextMsgs :
             MainText(m) =>
                 /\ sent' = <<AckSeq("text", m.seq)>>
                 /\ sent'[1].type = "ack" /\ sent'[1].state = "text"
                 /\ sent'[1].seq = m.seq
                 /\ ~fin'.ran
                 /\ m.ok => (/\ tasks' # <<>>
                             /\ tasks'[Len(tasks')].provided = Some(m.text)
                             /\ Len(tasks') = Len(tasks) + 1)
      ]_vars

\* a text message with a seq was acknowledged and its finalize is pending
C29_Witness ==
    /\ sent = <<AckSeq("text", Some(2))>>
    /\ tasks # <<>>
    /\ tasks[Len(tasks)].provided = Some("hello")
    /\ ~fin.ran

\* the i-th piece of spf samples of a payload, counted from 0
Piece(pcm, spf, i) == SubSeq(pcm, i * spf + 1, (i + 1) * spf)

\* the frames a chunk holds in full
FullPieces(pcm, spf) == Len(pcm) \div spf

\* the handler took the chunk of message m and fed the segmenter exactly
\* the full pieces of its payload, in order, the i-th with timestamp
\* chunk start + i * frame_ms
SlicedIntoFullPieces(m, sr) ==
    LET spf == SamplesPerFrame(sr, cfg.frame_ms)
    IN  spf > 0 =>
            /\ Len(steps') = FullPieces(m.pcm, spf)
            /\ \A i \in 1 .. Len(steps') :
                  /\ steps'[i].kind = "frame"
                  /\ steps'[i].ts = m.ts + (i - 1) * cfg.frame_ms
                  /\ steps'[i].is_speech = FrameIsSpeech(Piece(m.pcm, spf, i - 1))

\* C30: a chunk is sliced into consecutive pieces of frame_ms * rate / 1000
\* samples, the i-th piece reaches the segmenter with timestamp chunk start
\* + i * frame_ms, in increasing i, and only a piece that holds frame_ms of
\* audio is fed as a frame: a chunk shorter than one frame and a trailing
\* partial piece advance nothing.
C30_ChunkSlicedIntoFrames ==
    [][ \A m \in AudioMsgs :
          /\ (MainAudioChunk(m) /\ m.ok /\ m.num > 0
                  /\ (IF m.sr = 0 THEN sample_rate ELSE m.sr) > 0)
                => SlicedIntoFullPieces(m, IF m.sr = 0 THEN sample_rate ELSE m.sr)
          /\ (AppHandleAudio(m) /\ m.ok /\ m.sr # 0)
                => SlicedIntoFullPieces(m, m.sr)
      ]_vars

---------------------------------------------------------------------------
(* Properties of the event loop *)

Encoding(i) == i \in DOMAIN loop.runs /\ loop.runs[i].phase = "encode"

\* C22: the encoder and its file I/O run off the scheduling path: while a
\* segment of one connection is being encoded, every other open connection
\* whose receive loop is at its receive can have its message received and
\* processed.
C22_EncodeOffTheLoop ==
    \A i \in DOMAIN loop.runs :
        Encoding(i) =>
            \A c \in Conns \ {loop.runs[i].conn} :
                (loop.status[c] = "open" /\ loop.handler[c] = 0) => CanReceive(c)

\* C23: a finalize is its own unit of concurrency: while the transcript
\* wait of a segment is pending, the receive loop of its connection is at
\* its receive, where it accepts further messages and can detect the next
\* segment_end.
C23_FinalizeIsItsOwnTask ==
    \A i \in DOMAIN loop.runs :
        (loop.runs[i].phase = "wait" /\ loop.status[loop.runs[i].conn] = "open")
            => loop.handler[loop.runs[i].conn] = 0

\* C24: once a connection is torn down none of its finalize runs is in
\* flight: each has completed or was cancelled, and none holds a temporary
\* directory.
C24_TeardownCancelsFinalizes ==
    \A i \in DOMAIN loop.runs :
        loop.status[loop.runs[i].conn] = "closed" =>
            /\ loop.runs[i].phase \in {"done", "cancelled"}
            /\ loop.runs[i].dir = None

\* the directories held by the runs that are inside their with block
HeldDirs == {loop.runs[i].dir[1] : i \in {j \in DOMAIN loop.runs : loop.runs[j].dir # None}}

\* C25: the temporary directory of a finalize is its own: no two runs hold
\* the same directory at the same time; a run that has completed, with a
\* response, after an encoder failure or after a collaborator failure,
\* holds none, and no directory is on disk but those of the runs inside
\* their with block.
C25_TmpDirScoped ==
    /\ \A i, j \in DOMAIN loop.runs :
          (i # j /\ loop.runs[i].dir # None /\ loop.runs[j].dir # None)
              => loop.runs[i].dir # loop.runs[j].dir
    /\ \A i \in DOMAIN loop.runs :
          /\ loop.runs[i].phase = "done" =>
                /\ loop.runs[i].dir = None
                /\ loop.runs[i].outcome \in {"ok", "encode_failed", "collab_failed"}
          /\ loop.runs[i].phase \in {"encode", "call"} => loop.runs[i].dir # None
    /\ loop.dirs = HeldDirs

\* two finalizes of one connection are inside their with blocks at the same
\* time: the first awaits its collaborator, the second has made its
\* directory
C25_Witness ==
    /\ Len(loop.runs) = 2
    /\ loop.runs[1].conn = loop.runs[2].conn
    /\ loop.runs[1].phase = "call"
    /\ loop.runs[2].phase \in {"encode", "call"}
    /\ Cardinality(loop.dirs) = 2

---------------------------------------------------------------------------
(* Properties of the segmenter over a segment's life *)

\* the speech frame that ends a silence gap inside a segment
ResumesSpeech(st) ==
    /\ st.pre.state = "speaking"
    /\ st.is_speech
    /\ st.pre.silence_ms > 0

\* C31: while speaking, speech after a silence gap shorter than
\* end_silence_ms emits nothing, resets silence_ms to 0, makes its timestamp
\* the last speech timestamp and keeps the start; the segment_end that
\* closes a segment which had such a gap carries the original start and the
\* timestamp of the last speech frame plus post-roll.
C31_GapDoesNotEndSegment ==
    \A st \in FrameSteps :
        /\ ResumesSpeech(st) =>
              /\ st.pre.silence_ms < cfg.end_silence_ms
              /\ st.event = NoEvent
              /\ st.post.state = "speaking"
              /\ st.post.silence_ms = 0
              /\ st.post.last_speech_ts_ms = Some(st.ts)
              /\ st.post.first_speech_ts_ms = st.pre.first_speech_ts_ms
        /\ (st.event.type = "segment_end" /\ st.had_gap
                /\ st.pre.last_speech_ts_ms # None) =>
              /\ st.event.segment_start_ms = st.announced
              /\ st.event.segment_end_ms =
                     Some(st.pre.last_speech_ts_ms[1] + cfg.post_roll_ms)

\* C33: on one connection, whatever messages come between the audio
\* chunks, segment_start and segment_end alternate, beginning with
\* segment_start: a segment_start is announced only when no announced
\* segment is open, and a segment_end only when one is.
C33_StartsAndEndsAlternate ==
    \A st \in Range(steps) :
        /\ st.event.type = "segment_start" => ~st.was_open
        /\ st.event.type = "segment_end" => st.was_open

\* C34: the start carried by a segment_end, by silence or by force-close,
\* is the start announced by the segment_start that opened the segment,
\* also when that start was clamped to 0.
C34_EndCarriesAnnouncedStart ==
    \A st \in Range(steps) :
        (st.event.type = "segment_end" /\ st.was_open)
            => st.event.segment_start_ms = st.announced

---------------------------------------------------------------------------
(* Properties of the message protocol *)

AckPositions(q) == {i \in 1 .. Len(q) : q[i].type = "ack"}

\* the messages q hold exactly one ack, of the given type and seq
OneAck(q, ackType, seq) ==
    /\ Cardinality(AckPositions(q)) = 1
    /\ \A i \in AckPositions(q) : q[i] = AckSeq(ackType, seq)

\* C35: every message of a known type is answered by exactly one ack that
\* carries its seq and its type, for every control action and also when
\* the payload is malformed; invalid JSON and unknown types are answered by
\* an error message and no ack.
C35_OneAckPerMessage ==
    [][ /\ \A sr \in InitSessionRates, seq \in Seqs :
             MainInit(sr, seq) => OneAck(sent', "init", seq)
        /\ \A m \in FinFrameMsgs :
             MainImageFrame(m) => OneAck(sent', "imageFrame", None)
        /\ \A m \in ProtoAudioMsgs :
             MainAudioChunk(m) => OneAck(sent', "audioChunk", None)
        /\ \A m \in MainTranscriptMsgs :
             MainTranscript(m) => OneAck(sent', "transcript", None)
        /\ \A m \in MainTextMsgs :
             MainText(m) => OneAck(sent', "text", m.seq)
        /\ \A a \in ControlActions :
             MainControl(a) => OneAck(sent', "control", None)
        /\ (MainInvalidJson \/ MainUnknownType) =>
             /\ AckPositions(sent') = {}
             /\ Len(sent') = 1 /\ sent'[1].type = "error"
      ]_vars

\* C36: every frame of the segment that the buffer holds when the finalize
\* is scheduled at segment_end is in the frame window that the finalize
\* encodes, whatever is appended to the buffer during the transcript wait.
C36_HeldFramesAreEncoded ==
    [][ \A i \in 1 .. Len(tasks), mux_ok \in BOOLEAN :
          MainFinalizeSegment(i, mux_ok) =>
              \A k \in 1 .. Len(tasks[i].held) :
                  tasks[i].held[k] \in Range(enc'.frames_in)
      ]_vars

---------------------------------------------------------------------------
(* The connection manager on its own: connections that come, name their    *)
(* session or rename it, and go                                            *)

InitManager == InitFin

NextManager ==
    \/ \E s \in {None} \cup {Some(x) : x \in SessionIds} : Connect(s)
    \/ \E c \in 1 .. MaxConnections, s \in SessionIds : UpdateSessionId(c, s)
    \/ \E c \in 1 .. MaxConnections : Disconnect(c)

SpecManager == InitManager /\ [][NextManager]_vars

---------------------------------------------------------------------------
(* Properties of the connection manager *)

\* the active connections whose metadata names the session s
ActiveWithSession(s) ==
    {c \in connection_manager.active_connections :
        connection_manager.connection_metadata[c] = Some(s)}

\* the lookup by session finds a connection whenever an active one names s
SessionIsFound ==
    \A s \in SessionIds :
        ActiveWithSession(s) # {} => GetConnectionBySession(s) # None

\* the lookup by session never returns a connection that is gone
FoundIsActive ==
    \A s \in SessionIds :
        GetConnectionBySession(s) # None =>
            GetConnectionBySession(s)[1] \in connection_manager.active_connections

\* every entry of session_to_connection maps to an active connection whose
\* metadata names the key
EntriesAreCurrent ==
    \A s \in DOMAIN connection_manager.session_to_connection :
        connection_manager.session_to_connection[s] \in ActiveWithSession(s)

\* C39: after any sequence of connect, update_session_id and disconnect,
\* get_connection_by_session(s) returns an active connection whenever some
\* active connection's metadata has session_id s, never returns a
\* disconnected connection, and every session_to_connection entry maps to an
\* active connection whose metadata session_id equals the key.
C39_SessionLookupIsConsistent ==
    SessionIsFound /\ FoundIsActive /\ EntriesAreCurrent

\* the part of C39 that the code keeps: what the lookup returns is active,
\* and every entry is current
C39_EntriesStayCurrent == FoundIsActive /\ EntriesAreCurrent

---------------------------------------------------------------------------
(* The live bridge on its own: sessions, turns and the events of the live  *)
(* consumer.  In SpecBridgeFair the event loop keeps running the handler   *)
(* that is inside stream_deltas: wait_for returns an entry or times out    *)
(* after half a second, and the call of the runner returns.                *)

InitBridge == InitFin

StreamStep == StreamGet \/ StreamTimeout

FallbackStep == \E r \in {None} \cup {Some(t) : t \in FallbackTexts} : FallbackReturn(r)

NextBridge ==
    \/ \E kind \in {"echo", "adk"}, timeout \in IdleTimeouts : SessionStart(kind, timeout)
    \/ ActivityStart
    \/ \E text \in UserTexts : TextInput(text)
    \/ \E raises \in BOOLEAN : ActivityEnd(raises)
    \/ StreamGet
    \/ StreamTimeout
    \/ FallbackStep
    \/ StreamRaise
    \/ \E piece \in LivePieces : LiveText(piece)
    \/ LiveTurnEnd
    \/ LiveFailed
    \/ SessionEnd
    \/ Ping
    \/ BridgeBadMessage
    \/ BridgeDisconnect

SpecBridge == InitBridge /\ [][NextBridge]_vars

SpecBridgeFair ==
    SpecBridge /\ WF_vars(StreamStep) /\ WF_vars(FallbackStep)

---------------------------------------------------------------------------
(* Properties of the live bridge *)

\* the handler of activity_end is inside stream_deltas
Streaming == bridge.pc \in {"stream", "fallback"}

\* the handler of activity_end has sent its turn_complete and returned
TurnCompleted ==
    /\ bridge.pc = "receive"
    /\ BridgeMsg("turn_complete") \in Range(bridge.out)

FallbackIsDelivered ==
    (TurnCompleted /\ bridge.ended = "idle" /\ bridge.fallback # None) =>
        \E i \in 1 .. Len(bridge.out) :
            /\ bridge.out[i].type = "text_delta"
            /\ bridge.out[i].text = bridge.fallback[1]
            /\ bridge.out[i].from = bridge.out[i].turn

\* every text is delivered in the turn it was produced for
TextsStayInTheirTurn ==
    \A i \in 1 .. Len(bridge.out) :
        bridge.out[i].type = "text_delta" => bridge.out[i].from = bridge.out[i].turn

\* C37: when the idle timeout of a turn fires and the text fallback yields a
\* non-empty text, the text is delivered as a text_delta of the same turn,
\* before the turn's turn_complete, and no text produced for one turn is
\* delivered as part of a later turn.
C37_FallbackTextInItsTurn == FallbackIsDelivered /\ TextsStayInTheirTurn

\* zero or more text_delta messages, nothing else
OnlyDeltas(q) == \A i \in 1 .. Len(q) : q[i].type = "text_delta"

\* zero or more text_delta messages, then one turn_complete, then one ok
AnsweredTurn(q) ==
    /\ Len(q) >= 2
    /\ q[Len(q)] = BridgeMsg("ok")
    /\ q[Len(q) - 1] = BridgeMsg("turn_complete")
    /\ OnlyDeltas(SubSeq(q, 1, Len(q) - 2))

\* C38: every activity_end is answered by zero or more text_delta messages,
\* then exactly one turn_complete, then one ok, with or without a session
\* and whether or not the bridge raises in end_turn or while it streams;
\* session_end is answered by ok and stops the receive loop, which handles
\* nothing after it.
C38_ActivityEndIsAnswered ==
    [][ /\ ((\E raises \in BOOLEAN : ActivityEnd(raises))
             \/ StreamStep \/ FallbackStep \/ StreamRaise) =>
               IF bridge'.pc = "receive"
               THEN AnsweredTurn(bridge'.out)
               ELSE OnlyDeltas(bridge'.out)
        /\ SessionEnd => (bridge'.out = <<BridgeMsg("ok")>> /\ bridge'.stopped)
        /\ bridge.stopped =>
               (bridge'.out = bridge.out /\ bridge'.pc = bridge.pc /\ bridge'.stopped)
      ]_vars

\* a turn in which the bridge raised after its first text_delta, and a turn
\* of the echo bridge whose text has one character
C38_Witness ==
    /\ TurnCompleted
    /\ \/ bridge.ended = "raised" /\ Len(bridge.out) = 3
       \/ bridge.ended = "echo" /\ bridge.text = <<"h">> /\ Len(bridge.out) = 3

=============================================================================
